---------------------------- MODULE Spec2Model ----------------------------
(***************************************************************************)
(* LocalPoll server: the route registry (utils/controller.ts), the         *)
(* dispatcher (utils/application.ts) and the view resolver                 *)
(* (utils/view-engine.ts).                                                 *)
(*                                                                         *)
(* Strings the code takes apart (paths, methods, file names, templates)    *)
(* are sequences of one-character strings, so that prefix tests, case      *)
(* conversion, splitting and regular-expression replacement are computed   *)
(* character by character as the code computes them.                       *)
(***************************************************************************)
EXTENDS Integers, Sequences, FiniteSets, TLC

(***************************************************************************)
(* Bounds of the model.                                                    *)
(***************************************************************************)
MaxRoutes == 2        \* routes registered over all controllers
MaxStreams == 1       \* requests received by the server
MaxFiles == 3         \* files of a page tree drawn by InitView
MaxEdits == 1         \* changes made to the files of the site while served
MaxChunks == 3        \* 'data' events of the stream getBody reads
MaxOps == 2           \* operations of a caller on the array getRoutes gave it

(***************************************************************************)
(* Character strings.                                                      *)
(***************************************************************************)
s_api == <<"/","a","p","i">>
s_slash == <<"/">>
s_index_html == <<"i","n","d","e","x",".","h","t","m","l">>
s_dot_html == <<".","h","t","m","l">>
s_home == <<"h","o","m","e">>
s_index == <<"i","n","d","e","x">>
s_home_html == <<"h","o","m","e",".","h","t","m","l">>
s_404_html == <<"4","0","4",".","h","t","m","l">>
s_404 == <<"4","0","4">>
s_layout_html == <<"l","a","y","o","u","t",".","h","t","m","l">>
s_app == <<"a","p","p">>
s_pages == <<"p","a","g","e","s">>
s_public == <<"p","u","b","l","i","c">>
s_title == <<"t","i","t","l","e">>
s_message == <<"m","e","s","s","a","g","e">>
s_dynamicParams == <<"d","y","n","a","m","i","c","P","a","r","a","m","s">>
s_queryParams == <<"q","u","e","r","y","P","a","r","a","m","s">>
s_Home == <<"H","o","m","e">>
s_Welcome == <<"W","e","l","c","o","m","e"," ","t","o"," ","L","o","c","a","l","P","o","l","l","!">>
s_objectObject == <<"[","o","b","j","e","c","t"," ","O","b","j","e","c","t","]">>
s_contentMarker == <<"{","{","c","o","n","t","e","n","t","}","}">>
s_notFoundHtml == <<"<","h","1",">","4","0","4"," ","-"," ","P","a","g","e"," ","N","o","t"," ","F","o","u","n","d","<","/","h","1",">">>
s_templateNotFoundHtml == <<"<","h","1",">","T","e","m","p","l","a","t","e"," ","n","o","t"," ","f","o","u","n","d","<","/","h","1",">">>
s_defaultLayout == <<"<","h","t","m","l",">","<","b","o","d","y",">","{","{","c","o","n","t","e","n","t","}","}","<","/","b","o","d","y",">","<","/","h","t","m","l",">">>

LowerLetters == <<"a","b","c","d","e","f","g","h","i","j","k","l","m","n","o","p","q","r","s","t","u","v","w","x","y","z">>
UpperLetters == <<"A","B","C","D","E","F","G","H","I","J","K","L","M","N","O","P","Q","R","S","T","U","V","W","X","Y","Z">>
Digits == {"0","1","2","3","4","5","6","7","8","9"}
Range(f) == {f[i] : i \in DOMAIN f}

\* String.prototype.toUpperCase / toLowerCase, letter by letter
UpperChar(c) ==
  IF c \in Range(LowerLetters)
    THEN UpperLetters[CHOOSE i \in DOMAIN LowerLetters : LowerLetters[i] = c]
    ELSE c
LowerChar(c) ==
  IF c \in Range(UpperLetters)
    THEN LowerLetters[CHOOSE i \in DOMAIN UpperLetters : UpperLetters[i] = c]
    ELSE c
toUpperCase(s) == [i \in 1..Len(s) |-> UpperChar(s[i])]
toLowerCase(s) == [i \in 1..Len(s) |-> LowerChar(s[i])]

\* String.prototype.startsWith
startsWith(s, p) == Len(s) >= Len(p) /\ SubSeq(s, 1, Len(p)) = p

\* s.replace(/\/+/g, '/'): every run of '/' becomes one '/'
\* mutant: the regular expression without its g flag, only the first run is
\* replaced
collapseFirstRun(s) ==
  LET S == {i \in 1..Len(s) : s[i] = "/"}
      first == IF S = {} THEN 0 ELSE CHOOSE i \in S : \A j \in S : i <= j
      after == {i \in (first + 1)..Len(s) : s[i] # "/"}
      next == IF after = {} THEN Len(s) + 1 ELSE CHOOSE i \in after : \A j \in after : i <= j
  IN IF first = 0 THEN s
     ELSE SubSeq(s, 1, first) \o SubSeq(s, next, Len(s))
RECURSIVE collapseSlashes(_)
collapseSlashes(s) ==
  IF Len(s) <= 1 THEN s
  ELSE IF s[1] = "/" /\ s[2] = "/" THEN collapseSlashes(Tail(s))
  ELSE <<s[1]>> \o collapseSlashes(Tail(s))

\* position of the first occurrence of character c in s, 0 when there is none
IndexOfChar(s, c) ==
  LET S == {i \in 1..Len(s) : s[i] = c}
  IN IF S = {} THEN 0 ELSE CHOOSE i \in S : \A j \in S : i <= j
LastIndexOfChar(s, c) ==
  LET S == {i \in 1..Len(s) : s[i] = c}
  IN IF S = {} THEN 0 ELSE CHOOSE i \in S : \A j \in S : i >= j

\* s.split(c): the pieces between the occurrences of character c
RECURSIVE split(_, _)
split(s, c) ==
  LET i == IndexOfChar(s, c)
  IN IF i = 0 THEN <<s>>
     ELSE <<SubSeq(s, 1, i - 1)>> \o split(SubSeq(s, i + 1, Len(s)), c)

\* Array.prototype.join(sep)
RECURSIVE joinSeq(_, _)
joinSeq(q, sep) ==
  IF q = <<>> THEN <<>>
  ELSE IF Len(q) = 1 THEN q[1]
  ELSE q[1] \o sep \o joinSeq(Tail(q), sep)


(***************************************************************************)
(* State.                                                                  *)
(***************************************************************************)
VARIABLES
  ctrl,         \* Controller objects: [CtrlIds -> [basePath, routes]]
  controllers,  \* Application.controllers, a sequence of controller ids
  regLog,       \* history: the registerRoute / registerController calls made
  serving,      \* serve() has been called: the 'stream' listener is bound
  req,          \* per stream: the request, its dispatch and its response
  nextStream,   \* id of the next inbound stream
  crashed,      \* an error reached the process level: the process is gone
  fs,           \* files under src/client: [path -> number of edits made to it]
  dirOrder,     \* order in which readdirSync lists entry names
  isDev,        \* process.env.NODE_ENV === "development"
  layoutCache,  \* ViewEngine.layoutCache (NULL until the first load)
  reading,      \* one getBody call: its listeners, what it read, its promise
  held,         \* the array a caller holds from Controller.getRoutes
  applied,      \* one application of a function: its arguments and result
  db,           \* the SQLite database: the rows of its polls and votes tables
  created       \* history: the polls passed to createPoll and the ids returned

vars == <<ctrl, controllers, regLog, serving, req, nextStream, crashed,
          fs, dirOrder, isDev, layoutCache, reading, held, applied,
          db, created>>

NULL == "null"
\* no call made yet
NoCall == [called |-> FALSE]
\* the database after setupTables: both tables exist and hold no row
EmptyDatabase == [polls |-> <<>>, votes |-> <<>>]

(***************************************************************************)
(* Route registry: utils/controller.ts (class Controller, second version). *)
(***************************************************************************)
CtrlIds == {1, 2}
Handlers == {"H1", "H2"}

\* new Controller(name, basePath): no route yet
Controller(basePath) == [basePath |-> basePath, routes |-> <<>>]

\* the route object pushed by registerRoute
NewRoute(basePath, path, method, handler) ==
  [path    |-> collapseSlashes(s_api \o basePath \o path),
   method  |-> toUpperCase(method),
   handler |-> handler]

\* the predicate of routes.find in getHandler
\* mutant: the path is compared ignoring letter case
RouteMatchesAnyCase(route, path, methodUpper) ==
  toLowerCase(route.path) = toLowerCase(path) /\ route.method = methodUpper
RouteMatches(route, path, methodUpper) ==
  route.path = path /\ route.method = methodUpper

\* Array.prototype.find: index of the first element satisfying the predicate,
\* 0 for undefined
\* mutant: the last matching route wins
FindRouteLast(routes, path, methodUpper) ==
  LET S == {i \in 1..Len(routes) : RouteMatches(routes[i], path, methodUpper)}
  IN IF S = {} THEN 0 ELSE CHOOSE i \in S : \A j \in S : i >= j
FindRoute(routes, path, methodUpper) ==
  LET S == {i \in 1..Len(routes) : RouteMatches(routes[i], path, methodUpper)}
  IN IF S = {} THEN 0 ELSE CHOOSE i \in S : \A j \in S : i <= j

\* Controller.getHandler(path, method) on a controller with these routes
getHandler(routes, path, method) ==
  LET methodUpper == toUpperCase(method)
      i == FindRoute(routes, path, methodUpper)
  IN IF i # 0 THEN routes[i].handler ELSE NULL

\* Controller.getRoutes(): a copy of the array
getRoutes(c) == [i \in 1..Len(ctrl[c].routes) |-> ctrl[c].routes[i]]

TotalRoutes == Len(ctrl[1].routes) + Len(ctrl[2].routes)

\* Controller.registerRoute(path, method, handler) on controller c
registerRoute(c, path, method, handler) ==
  /\ ~crashed
  /\ ~serving
  /\ TotalRoutes < MaxRoutes
  /\ ctrl' = [ctrl EXCEPT ![c].routes =
                Append(@, NewRoute(ctrl[c].basePath, path, method, handler))]
  /\ regLog' = [regLog EXCEPT !.routes[c] =
                  Append(@, [path |-> path, method |-> method, handler |-> handler])]
  /\ UNCHANGED <<controllers, serving, req, nextStream, crashed,
                 fs, dirOrder, isDev, layoutCache, reading, held, applied,
                 db, created>>


(***************************************************************************)
(* HTTP/2 streams, as the code uses them: respond(), end(), headersSent.   *)
(* respond() throws on a stream the peer has already reset and on a stream *)
(* whose headers were sent; end() on a reset or ended stream writes        *)
(* nothing.                                                                *)
(***************************************************************************)
NoBody == [kind |-> "none"]
JsonBody(text) == [kind |-> "json", json |-> text]
HtmlBody(chars) == [kind |-> "html", html |-> chars]
TextBody(str) == [kind |-> "text", text |-> str]
FileBody(chars) == [kind |-> "file", bytes |-> chars]

NewStream ==
  [headersSent |-> FALSE, status |-> 0, contentType |-> NULL,
   cacheControl |-> NULL, body |-> NoBody, ended |-> FALSE, destroyed |-> FALSE,
   ends |-> 0]

ERR_HTTP2_INVALID_STREAM == [message |-> "The stream has been destroyed"]
ERR_HTTP2_HEADERS_SENT == [message |-> "Response has already been initiated."]
NoError == [message |-> NULL]

\* stream.respond(headers)
StreamRespond(st, status, contentType, cacheControl) ==
  IF st.destroyed
    THEN [threw |-> TRUE, error |-> ERR_HTTP2_INVALID_STREAM, st |-> st]
  ELSE IF st.headersSent
    THEN [threw |-> TRUE, error |-> ERR_HTTP2_HEADERS_SENT, st |-> st]
  ELSE [threw |-> FALSE, error |-> NoError,
        st |-> [st EXCEPT !.headersSent = TRUE, !.status = status,
                          !.contentType = contentType,
                          !.cacheControl = cacheControl]]

\* stream.end(body); headers not yet sent go out with the default status 200.
\* ends counts the calls made on a stream that is not destroyed
StreamEnd(st, body) ==
  IF st.destroyed THEN st
  ELSE IF st.ended THEN [st EXCEPT !.ends = @ + 1]
  ELSE [st EXCEPT !.headersSent = TRUE,
                  !.status = IF st.headersSent THEN @ ELSE 200,
                  !.body = body, !.ended = TRUE, !.ends = @ + 1]

(***************************************************************************)
(* JSON.stringify on the values handlers return.  A value holding a cycle  *)
(* or a BigInt makes it throw.                                             *)
(***************************************************************************)
Values == {[tag |-> "data"], [tag |-> "circular"]}
Errors == {[message |-> "boom"]}
JsonTypeError == [message |-> "Converting circular structure to JSON"]

JSONstringify(v) ==
  IF v.tag = "circular"
    THEN [threw |-> TRUE, error |-> JsonTypeError, text |-> <<>>]
    ELSE [threw |-> FALSE, error |-> NoError, text |-> <<"stringify", v.tag>>]
\* JSON.stringify({ error: message })
JSONerror(message) == <<"stringify", "error", message>>

(***************************************************************************)
(* Query codec: utils/request.ts, queryParams.                             *)
(***************************************************************************)
EmptyParams == [n \in {} |-> <<>>]

\* new URL(rawPath, base) on a raw path that opens with "//": the slashes
\* are skipped and a host name is read up to the next '/', '?' or '#'
\* (paths holding dot segments, percent escapes, back-slashes or control
\* characters are not among the inputs)
hasAuthority(rawPath) == startsWith(rawPath, <<"/", "/">>)
RECURSIVE dropSlashes(_)
dropSlashes(s) == IF s # <<>> /\ s[1] = "/" THEN dropSlashes(Tail(s)) ELSE s
hostEnd(rest) ==
  LET S == {i \in 1..Len(rest) : rest[i] \in {"/", "?", "#"}}
  IN IF S = {} THEN Len(rest) + 1 ELSE CHOOSE i \in S : \A j \in S : i <= j
hostOf(rawPath) ==
  LET rest == dropSlashes(rawPath) IN SubSeq(rest, 1, hostEnd(rest) - 1)
afterHost(rawPath) ==
  LET rest == dropSlashes(rawPath) IN SubSeq(rest, hostEnd(rest), Len(rest))
\* new URL(rawPath, base) throws TypeError "Invalid URL": the host is empty
invalidURL(rawPath) == hasAuthority(rawPath) /\ hostOf(rawPath) = <<>>

\* URL.pathname: the part before '?' and '#' of what follows the host, '/'
\* when that is empty
pathnameOf(rawPath) ==
  LET full == IF hasAuthority(rawPath) THEN afterHost(rawPath) ELSE rawPath
      q == IndexOfChar(full, "?")
      h == IndexOfChar(full, "#")
      cut == IF q = 0 THEN h ELSE IF h = 0 THEN q ELSE IF q < h THEN q ELSE h
      path == IF cut = 0 THEN full ELSE SubSeq(full, 1, cut - 1)
  IN IF path = <<>> THEN <<"/">> ELSE path

\* URL.search without its '?': between the first '?' and a following '#'
searchOf(rawPath) ==
  LET h == IndexOfChar(rawPath, "#")
      noHash == IF h = 0 THEN rawPath ELSE SubSeq(rawPath, 1, h - 1)
      q == IndexOfChar(noHash, "?")
  IN IF q = 0 THEN <<>> ELSE SubSeq(noHash, q + 1, Len(noHash))

\* Object.fromEntries(url.searchParams.entries()): a later pair with the same
\* name replaces an earlier one
RECURSIVE fromEntries(_)
fromEntries(pairs) ==
  IF pairs = <<>> THEN EmptyParams
  ELSE LET front == fromEntries(SubSeq(pairs, 1, Len(pairs) - 1))
           last == pairs[Len(pairs)]
           eq == IndexOfChar(last, "=")
           name == IF eq = 0 THEN last ELSE SubSeq(last, 1, eq - 1)
           value == IF eq = 0 THEN <<>> ELSE SubSeq(last, eq + 1, Len(last))
       IN [n \in (DOMAIN front) \cup {name} |-> IF n = name THEN value ELSE front[n]]

queryParams(rawPath) ==
  fromEntries(SelectSeq(split(searchOf(rawPath), "&"), LAMBDA piece : piece # <<>>))

(***************************************************************************)
(* Query codec of utils/url.ts: querystring.parse on what lies between the *)
(* first '?' and the second.  A value is a string, or the array of the     *)
(* values of a name given more than once.                                  *)
(***************************************************************************)
QsString(chars) == [t |-> "string", s |-> chars]
QsArray(items) == [t |-> "array", items |-> items]

\* querystring.parse on the non-empty pieces between the '&'
\* mutant: a parameter without '=' is left out
RECURSIVE querystringParseSkipsBare(_)
querystringParseSkipsBare(pieces) ==
  IF pieces = <<>> THEN [n \in {} |-> QsString(<<>>)]
  ELSE LET front == querystringParseSkipsBare(SubSeq(pieces, 1, Len(pieces) - 1))
           last == pieces[Len(pieces)]
           eq == IndexOfChar(last, "=")
           name == SubSeq(last, 1, eq - 1)
           value == SubSeq(last, eq + 1, Len(last))
       IN IF eq = 0 THEN front
          ELSE [n \in (DOMAIN front) \cup {name} |->
                  IF n # name THEN front[n]
                  ELSE IF name \notin DOMAIN front THEN QsString(value)
                  ELSE IF front[name].t = "array"
                    THEN QsArray(Append(front[name].items, value))
                  ELSE QsArray(<<front[name].s, value>>)]
RECURSIVE querystringParse(_)
querystringParse(pieces) ==
  IF pieces = <<>> THEN [n \in {} |-> QsString(<<>>)]
  ELSE LET front == querystringParse(SubSeq(pieces, 1, Len(pieces) - 1))
           last == pieces[Len(pieces)]
           eq == IndexOfChar(last, "=")
           name == IF eq = 0 THEN last ELSE SubSeq(last, 1, eq - 1)
           value == IF eq = 0 THEN <<>> ELSE SubSeq(last, eq + 1, Len(last))
       IN [n \in (DOMAIN front) \cup {name} |->
             IF n # name THEN front[n]
             ELSE IF name \notin DOMAIN front THEN QsString(value)
             ELSE IF front[name].t = "array"
               THEN QsArray(Append(front[name].items, value))
             ELSE QsArray(<<front[name].s, value>>)]

\* queryParams of utils/url.ts
queryParamsOfUrl(path) ==
  IF IndexOfChar(path, "?") = 0 THEN [n \in {} |-> QsString(<<>>)]
  ELSE IF split(path, "?")[2] = <<>> THEN [n \in {} |-> QsString(<<>>)]
  ELSE querystringParse(SelectSeq(split(split(path, "?")[2], "&"),
                                  LAMBDA piece : piece # <<>>))


(***************************************************************************)
(* View resolver: utils/view-engine.ts (class ViewEngine).                 *)
(* A file path is a sequence of names below src/client.                    *)
(***************************************************************************)
pagesPath == <<s_app, s_pages>>
layoutPath == <<s_app, s_layout_html>>
notFoundPath == <<s_app, s_404_html>>
notFoundIndexPath == <<s_app, s_404, s_index_html>>

\* the text of the files: the layout is a shell around the content marker,
\* any other file holds its own path, the number of edits made to it and a
\* placeholder for the page parameter p
templateVars == <<"|","{","{","d","y","n","a","m","i","c","P","a","r","a","m","s",".","p","}","}">>
layoutText == <<"[","{","{","c","o","n","t","e","n","t","}","}","]">>
DigitOf(n) == <<"0","1","2","3","4","5","6","7","8","9">>[n + 1]
ContentOf(f, edits) ==
  IF f = layoutPath THEN <<DigitOf(edits)>> \o layoutText
  ELSE joinSeq(f, s_slash) \o <<"#", DigitOf(edits)>> \o templateVars
FsOf(files) == [f \in files |-> 0]
\* in place of the number of edits: the path exists for existsSync, and
\* reading it throws (permission denied, or unlinked between the existence
\* check and the read)
Unreadable == 0 - 1

IsFile(p) == p \in DOMAIN fs
IsDir(p) ==
  \E f \in DOMAIN fs : Len(f) > Len(p) /\ SubSeq(f, 1, Len(p)) = p
\* fs.existsSync
existsSync(p) == IsFile(p) \/ IsDir(p)
\* fs.readFileSync(p, "utf-8")
readFileSync(p) ==
  IF IsFile(p) /\ fs[p] # Unreadable /\ ~IsDir(p)
    THEN [threw |-> FALSE, content |-> ContentOf(p, fs[p])]
    ELSE [threw |-> TRUE, content |-> <<>>]
\* fs.readdirSync(dir) throws: dir is no directory, or may not be listed
readdirThrows(dir) == ~IsDir(dir) \/ (IsFile(dir) /\ fs[dir] = Unreadable)
\* the names of the subdirectories fs.readdirSync lists, in listing order
readdirDirs(dir) == SelectSeq(dirOrder, LAMBDA n : IsDir(dir \o <<n>>))

\* `${p}.html`: the suffix goes on the last name of the path
withSuffix(p, suffix) ==
  IF p = <<>> THEN <<suffix>>
  ELSE SubSeq(p, 1, Len(p) - 1) \o <<p[Len(p)] \o suffix>>

NoMatch == [found |-> FALSE, path |-> <<>>, dynamicParams |-> EmptyParams]
Match(p, params) == [found |-> TRUE, path |-> p, dynamicParams |-> params]

\* the first non-null result of a sequence of results
RECURSIVE firstFound(_)
firstFound(results) ==
  IF results = <<>> THEN NoMatch
  ELSE IF Head(results).found THEN Head(results)
  ELSE firstFound(Tail(results))

\* { ...dynamicParams, [paramName]: currentSegment }
\* mutant: a name already bound keeps its value
withParamKeepsFirst(params, name, value) ==
  [n \in (DOMAIN params) \cup {name} |->
     IF n \in DOMAIN params THEN params[n] ELSE value]
withParam(params, name, value) ==
  [n \in (DOMAIN params) \cup {name} |-> IF n = name THEN value ELSE params[n]]

\* ViewEngine.get404Path
\* mutant: app/404/index.html is probed before app/404.html
get404PathIndexFirst ==
  IF existsSync(notFoundIndexPath) THEN Match(notFoundIndexPath, EmptyParams)
  ELSE IF existsSync(notFoundPath) THEN Match(notFoundPath, EmptyParams)
  ELSE Match(<<>>, EmptyParams)
get404Path ==
  IF existsSync(notFoundPath) THEN Match(notFoundPath, EmptyParams)
  ELSE IF existsSync(notFoundIndexPath) THEN Match(notFoundIndexPath, EmptyParams)
  ELSE Match(<<>>, EmptyParams)

\* ViewEngine.findExactMatch
findExactMatch(segments) ==
  LET indexPath == pagesPath \o segments \o <<s_index_html>>
      directPath == pagesPath \o withSuffix(segments, s_dot_html)
  IN IF existsSync(indexPath) THEN Match(indexPath, EmptyParams)
     ELSE IF existsSync(directPath) THEN Match(directPath, EmptyParams)
     ELSE NoMatch

\* what searchDynamicRoutes returns from the results of its two loops: the
\* loop over the literal entries first, then the loop over the ':' entries
\* mutant: a literal entry that resolves nothing ends the search
loopResultsNoBacktrack(exactResults, dynamicResults) ==
  IF exactResults # <<>> THEN firstFound(exactResults)
  ELSE firstFound(dynamicResults)
loopResults(exactResults, dynamicResults) ==
  firstFound(exactResults \o dynamicResults)

\* the probes of searchDynamicRoutes once the segments are used up
\* mutant: the sibling .html file is probed before index.html
probeTemplateDirectFirst(currentPath, dynamicParams) ==
  LET indexPath == currentPath \o <<s_index_html>>
      directPath == withSuffix(currentPath, s_dot_html)
  IN IF existsSync(directPath) THEN Match(directPath, dynamicParams)
     ELSE IF existsSync(indexPath) THEN Match(indexPath, dynamicParams)
     ELSE NoMatch
probeTemplate(currentPath, dynamicParams) ==
  LET indexPath == currentPath \o <<s_index_html>>
      directPath == withSuffix(currentPath, s_dot_html)
  IN IF existsSync(indexPath) THEN Match(indexPath, dynamicParams)
     ELSE IF existsSync(directPath) THEN Match(directPath, dynamicParams)
     ELSE NoMatch

\* ViewEngine.searchDynamicRoutes (matchedSegments is never read: left out)
RECURSIVE searchDynamicRoutes(_, _, _)
searchDynamicRoutes(currentPath, remainingSegments, dynamicParams) ==
  IF remainingSegments = <<>> THEN probeTemplate(currentPath, dynamicParams)
  ELSE IF readdirThrows(currentPath) THEN NoMatch   \* caught
  ELSE
    LET currentSegment == Head(remainingSegments)
        restSegments == Tail(remainingSegments)
        entries == readdirDirs(currentPath)
        exact == SelectSeq(entries, LAMBDA n : n = currentSegment)
        dynamic == SelectSeq(entries, LAMBDA n : startsWith(n, <<":">>))
        exactResults ==
          [i \in 1..Len(exact) |->
             searchDynamicRoutes(currentPath \o <<exact[i]>>, restSegments,
                                 dynamicParams)]
        dynamicResults ==
          [i \in 1..Len(dynamic) |->
             searchDynamicRoutes(currentPath \o <<dynamic[i]>>, restSegments,
                                 withParam(dynamicParams, Tail(dynamic[i]),
                                           currentSegment))]
    IN loopResults(exactResults, dynamicResults)

\* ViewEngine.findDynamicMatch
findDynamicMatch(segments) ==
  searchDynamicRoutes(pagesPath, segments, EmptyParams)

\* getTemplatePath after the home routes: exact match, dynamic match, 404
\* mutant: the dynamic walk is tried before the exact match
firstOfMatchesDynamicFirst(exactMatch, dynamicMatch) ==
  IF dynamicMatch.found THEN dynamicMatch
  ELSE IF exactMatch.found THEN exactMatch
  ELSE get404Path
firstOfMatches(exactMatch, dynamicMatch) ==
  IF exactMatch.found THEN exactMatch
  ELSE IF dynamicMatch.found THEN dynamicMatch
  ELSE get404Path

matchSegments(segments) ==
  firstOfMatches(findExactMatch(segments), findDynamicMatch(segments))

\* ViewEngine.getTemplatePath
getTemplatePath(template) ==
  IF template = s_index \/ template = s_home \/ template = <<>>
    THEN LET homePath == pagesPath \o <<s_home_html>>
             homeIndexPath == pagesPath \o <<s_home, s_index_html>>
         IN IF existsSync(homePath) THEN Match(homePath, EmptyParams)
            ELSE IF existsSync(homeIndexPath) THEN Match(homeIndexPath, EmptyParams)
            ELSE get404Path
  ELSE matchSegments(SelectSeq(split(template, "/"), LAMBDA seg : Len(seg) > 0))

\* loadTemplate once the path is resolved
loadResolved(resolved, read) ==
  IF resolved.path = <<>>
    THEN [content |-> s_notFoundHtml, dynamicParams |-> resolved.dynamicParams,
          path |-> resolved.path]
  ELSE IF read.threw
    THEN [content |-> s_templateNotFoundHtml, dynamicParams |-> EmptyParams,
          path |-> resolved.path]
  ELSE [content |-> read.content, dynamicParams |-> resolved.dynamicParams,
        path |-> resolved.path]

readResolved(resolved) == loadResolved(resolved, readFileSync(resolved.path))

\* ViewEngine.loadTemplate
loadTemplate(template) == readResolved(getTemplatePath(template))

(***************************************************************************)
(* Template interpolation.  JavaScript values of the data context are      *)
(* strings, objects (maps from property name to value), the numbers that   *)
(* are lengths of strings, and undefined.                                  *)
(***************************************************************************)
Undefined == [t |-> "undefined"]
JsString(chars) == [t |-> "string", s |-> chars]
JsObject(props) == [t |-> "object", props |-> props]
JsNumber(n) == [t |-> "number", n |-> n]
\* an object whose properties are the strings of a name -> string map
StringMap(m) == JsObject([n \in DOMAIN m |-> JsString(m[n])])

WordChars == Range(LowerLetters) \cup Range(UpperLetters) \cup Digits \cup {"_"}

\* ToBoolean(acc): undefined, the empty string and 0 are falsy
truthy(acc) ==
  IF acc.t = "undefined" THEN FALSE
  ELSE IF acc.t = "string" THEN acc.s # <<>>
  ELSE IF acc.t = "number" THEN acc.n # 0
  ELSE TRUE

\* acc[k]: the own properties of an object, the characters and the length
\* of a string (the methods inherited from the prototypes are left out)
propertyOf(acc, k) ==
  IF acc.t = "object"
    THEN IF k \in DOMAIN acc.props THEN acc.props[k] ELSE Undefined
  ELSE IF acc.t = "string" /\ Len(k) = 1 /\ k[1] \in Digits
    THEN LET i == CHOOSE d \in 0..9 : <<"0","1","2","3","4","5","6","7","8","9">>[d + 1] = k[1]
         IN IF i < Len(acc.s) THEN JsString(<<acc.s[i + 1]>>) ELSE Undefined
  ELSE IF acc.t = "string" /\ k = <<"l","e","n","g","t","h">>
    THEN JsNumber(Len(acc.s))
  ELSE Undefined

\* the step of the reduce: acc && acc[k] !== undefined ? acc[k] : undefined
getProp(acc, k) ==
  IF truthy(acc) /\ propertyOf(acc, k) # Undefined THEN propertyOf(acc, k)
  ELSE Undefined

\* key.split(".").reduce(..., data)
RECURSIVE reduceKeys(_, _)
reduceKeys(keys, acc) ==
  IF keys = <<>> THEN acc ELSE reduceKeys(Tail(keys), getProp(acc, Head(keys)))

\* value !== undefined ? String(value) : ""
RECURSIVE decimal(_)
decimal(n) == IF n < 10 THEN <<DigitOf(n)>> ELSE decimal(n \div 10) \o <<DigitOf(n % 10)>>
stringOf(value) ==
  IF value.t = "string" THEN value.s
  ELSE IF value.t = "object" THEN s_objectObject
  ELSE IF value.t = "number" THEN decimal(value.n)
  ELSE <<>>

\* end of the run of [\w.] characters of t that starts at position i
RECURSIVE keyEnd(_, _)
keyEnd(t, i) ==
  IF i <= Len(t) /\ (t[i] \in WordChars \/ t[i] = ".") THEN keyEnd(t, i + 1) ELSE i

\* length of key when /\{\{([\w.]+)\}\}/ matches t at position i, else 0
placeholderAt(t, i) ==
  IF i + 1 <= Len(t) /\ t[i] = "{" /\ t[i + 1] = "{"
    THEN LET j == keyEnd(t, i + 2)
         IN IF j > i + 2 /\ j + 1 <= Len(t) /\ t[j] = "}" /\ t[j + 1] = "}"
              THEN j - (i + 2) ELSE 0
    ELSE 0

\* the replacement callback of parseVariables for one key
replacement(key, data) == stringOf(reduceKeys(split(key, "."), data))

\* template.replace(/\{\{([\w.]+)\}\}/g, ...) from position i on: text up to
\* the leftmost match, its replacement, then the rest after the match
RECURSIVE replaceFrom(_, _, _)
replaceFrom(t, i, data) ==
  LET matches == {m \in i..Len(t) : placeholderAt(t, m) > 0}
  IN IF matches = {} THEN SubSeq(t, i, Len(t))
     ELSE LET m == CHOOSE x \in matches : \A y \in matches : x <= y
              n == placeholderAt(t, m)
          IN SubSeq(t, i, m - 1)
               \o replacement(SubSeq(t, m + 2, m + n + 1), data)
               \o replaceFrom(t, m + n + 4, data)

\* ViewEngine.parseVariables
parseVariables(t, data) == replaceFrom(t, 1, data)

\* position of the first occurrence of pat in s, 0 when there is none
indexOf(s, pat) ==
  LET S == {i \in 1..(Len(s) - Len(pat) + 1) : SubSeq(s, i, i + Len(pat) - 1) = pat}
  IN IF S = {} THEN 0 ELSE CHOOSE i \in S : \A j \in S : i <= j

\* layout.replace("{{content}}", parsedTemplate): the first occurrence only
replaceFirst(s, pat, by) ==
  LET i == indexOf(s, pat)
  IN IF i = 0 THEN s
     ELSE SubSeq(s, 1, i - 1) \o by \o SubSeq(s, i + Len(pat), Len(s))

\* ViewEngine.layoutCache === null
NoLayout == [loaded |-> FALSE, text |-> <<>>]

\* ViewEngine.getLayout: the layout string and the cache it leaves behind
\* mutant: the first load caches the default layout, not the text read
getLayoutCachesDefault ==
  LET read == readFileSync(layoutPath)
      fromDisk == IF read.threw THEN s_defaultLayout ELSE read.content
  IN IF isDev THEN [layout |-> fromDisk, cache |-> layoutCache]
     ELSE IF ~layoutCache.loaded
       THEN [layout |-> fromDisk, cache |-> [loaded |-> TRUE, text |-> s_defaultLayout]]
     ELSE [layout |-> layoutCache.text, cache |-> layoutCache]
\* mutant: the file is read again on every call in either mode
getLayoutReadsAgain ==
  LET read == readFileSync(layoutPath)
      fromDisk == IF read.threw THEN s_defaultLayout ELSE read.content
  IN IF isDev THEN [layout |-> fromDisk, cache |-> layoutCache]
     ELSE [layout |-> fromDisk, cache |-> [loaded |-> TRUE, text |-> fromDisk]]
getLayout ==
  LET read == readFileSync(layoutPath)
      fromDisk == IF read.threw THEN s_defaultLayout ELSE read.content
  IN IF isDev THEN [layout |-> fromDisk, cache |-> layoutCache]
     ELSE IF ~layoutCache.loaded
       THEN [layout |-> fromDisk, cache |-> [loaded |-> TRUE, text |-> fromDisk]]
     ELSE [layout |-> layoutCache.text, cache |-> layoutCache]

\* the data context render builds: { ...data, dynamicParams, queryParams }
renderData(dynamicParams, rawPath) ==
  JsObject([k \in {s_title, s_message, s_dynamicParams, s_queryParams} |->
              IF k = s_title THEN JsString(s_Home)
              ELSE IF k = s_message THEN JsString(s_Welcome)
              ELSE IF k = s_dynamicParams THEN StringMap(dynamicParams)
              ELSE StringMap(queryParams(rawPath))])

\* stream.respond(...) followed by stream.end(body): nothing is written when
\* respond throws
respondThenEnd(responded, body) ==
  IF responded.threw THEN [threw |-> TRUE, st |-> responded.st]
  ELSE [threw |-> FALSE, st |-> StreamEnd(responded.st, body)]

\* what render leaves behind
finishRender(written, cache, loaded) ==
  [st |-> written.st, cache |-> cache, threw |-> written.threw,
   view |-> [path |-> loaded.path, dynamicParams |-> loaded.dynamicParams,
             content |-> loaded.content]]

\* the end of render: respond unless the headers are sent, then end
writePage(st, finalHtml) ==
  IF st.headersSent THEN [threw |-> FALSE, st |-> StreamEnd(st, HtmlBody(finalHtml))]
  ELSE respondThenEnd(StreamRespond(st, 200, "text/html; charset=utf-8", NULL),
                      HtmlBody(finalHtml))

\* render once the template and the layout are loaded
renderLoaded(st, loaded, lay, rawPath) ==
  finishRender(
    writePage(st, replaceFirst(lay.layout, s_contentMarker,
                               parseVariables(loaded.content,
                                              renderData(loaded.dynamicParams, rawPath)))),
    lay.cache, loaded)

\* ViewEngine.render(template, data) on a stream: the stream it leaves, the
\* layout cache it leaves, whether an error left the method, and what was
\* resolved
render(st, template, rawPath) ==
  renderLoaded(st, loadTemplate(template), getLayout, rawPath)

(***************************************************************************)
(* Dispatcher: utils/application.ts (class Application).                   *)
(***************************************************************************)
publicPath == <<s_public>>

\* Application.staticFileExtensions
staticFileExtensions ==
  {<<".","p","n","g">>,
   <<".","j","p","g">>,
   <<".","j","p","e","g">>,
   <<".","g","i","f">>,
   <<".","s","v","g">>,
   <<".","i","c","o">>,
   <<".","w","e","b","p">>,
   <<".","b","m","p">>,
   <<".","t","t","f">>,
   <<".","w","o","f","f">>,
   <<".","w","o","f","f","2">>,
   <<".","e","o","t">>,
   <<".","o","t","f">>,
   <<".","c","s","s">>,
   <<".","j","s">>,
   <<".","m","a","p">>,
   <<".","j","s","o","n">>,
   <<".","x","m","l">>,
   <<".","t","x","t">>,
   <<".","c","s","v">>,
   <<".","p","d","f">>,
   <<".","d","o","c">>,
   <<".","d","o","c","x">>,
   <<".","x","l","s">>,
   <<".","x","l","s","x">>,
   <<".","p","p","t">>,
   <<".","p","p","t","x">>,
   <<".","z","i","p">>,
   <<".","t","a","r">>,
   <<".","g","z">>,
   <<".","r","a","r">>,
   <<".","m","p","3">>,
   <<".","m","p","4">>,
   <<".","a","v","i">>,
   <<".","m","o","v">>,
   <<".","w","m","v">>,
   <<".","f","l","v">>,
   <<".","t","s">>,
   <<".","m","j","s">>,
   <<".","h","t","m","l">>,
   <<".","h","t","m">>}

\* Application.getMimeType
getMimeType(extension) ==
  CASE extension = <<".","p","n","g">> -> "image/png"
    [] extension = <<".","j","p","g">> -> "image/jpeg"
    [] extension = <<".","j","p","e","g">> -> "image/jpeg"
    [] extension = <<".","g","i","f">> -> "image/gif"
    [] extension = <<".","s","v","g">> -> "image/svg+xml"
    [] extension = <<".","i","c","o">> -> "image/x-icon"
    [] extension = <<".","w","e","b","p">> -> "image/webp"
    [] extension = <<".","b","m","p">> -> "image/bmp"
    [] extension = <<".","t","t","f">> -> "font/ttf"
    [] extension = <<".","w","o","f","f">> -> "font/woff"
    [] extension = <<".","w","o","f","f","2">> -> "font/woff2"
    [] extension = <<".","e","o","t">> -> "application/vnd.ms-fontobject"
    [] extension = <<".","o","t","f">> -> "font/otf"
    [] extension = <<".","c","s","s">> -> "text/css"
    [] extension = <<".","j","s">> -> "application/javascript"
    [] extension = <<".","m","j","s">> -> "application/javascript"
    [] extension = <<".","c","j","s">> -> "application/javascript"
    [] extension = <<".","t","s">> -> "application/javascript"
    [] extension = <<".","m","a","p">> -> "application/json"
    [] extension = <<".","j","s","o","n">> -> "application/json"
    [] extension = <<".","x","m","l">> -> "application/xml"
    [] extension = <<".","t","x","t">> -> "text/plain"
    [] extension = <<".","c","s","v">> -> "text/csv"
    [] extension = <<".","p","d","f">> -> "application/pdf"
    [] extension = <<".","h","t","m","l">> -> "text/html"
    [] extension = <<".","h","t","m">> -> "text/html"
    [] OTHER -> "application/octet-stream"

\* the non-empty names of a '/'-separated path
segmentsOf(path) == SelectSeq(split(path, "/"), LAMBDA seg : Len(seg) > 0)

\* path.extname: from the last '.' of the last name, '' when that name has no
\* '.' or only a leading one
extname(pathname) ==
  LET segs == segmentsOf(pathname)
      base == IF segs = <<>> THEN <<>> ELSE segs[Len(segs)]
      dot == LastIndexOfChar(base, ".")
  IN IF dot <= 1 THEN <<>> ELSE SubSeq(base, dot, Len(base))

\* Application.isStaticFile
isStaticFile(pathname) == toLowerCase(extname(pathname)) \in staticFileExtensions

\* Application.sendJSON(stream, data)
sendJSON(st, data) ==
  LET responded == StreamRespond(st, 200, "application/json; charset=utf-8", "no-cache")
      text == JSONstringify(data)
  IN IF responded.threw THEN [threw |-> TRUE, error |-> responded.error, st |-> st]
     ELSE IF text.threw THEN [threw |-> TRUE, error |-> text.error, st |-> responded.st]
     ELSE [threw |-> FALSE, error |-> NoError,
           st |-> StreamEnd(responded.st, JsonBody(text.text))]

\* the .catch callback of onStream; escaped: an error left the callback, the
\* promise chain ends in an unhandled rejection
\* mutant: the failure is answered with the success status
onRejected200(st, error) ==
  LET responded == IF ~st.headersSent THEN StreamRespond(st, 200, NULL, NULL)
                   ELSE [threw |-> FALSE, error |-> NoError, st |-> st]
  IN IF responded.threw THEN [escaped |-> TRUE, st |-> st]
     ELSE [escaped |-> FALSE,
           st |-> StreamEnd(responded.st, JsonBody(JSONerror(error.message)))]
onRejected(st, error) ==
  LET responded == IF ~st.headersSent THEN StreamRespond(st, 500, NULL, NULL)
                   ELSE [threw |-> FALSE, error |-> NoError, st |-> st]
  IN IF responded.threw THEN [escaped |-> TRUE, st |-> st]
     ELSE [escaped |-> FALSE,
           st |-> StreamEnd(responded.st, JsonBody(JSONerror(error.message)))]

\* the .then callback of onStream followed by its .catch
onFulfilled(st, data) ==
  LET sent == sendJSON(st, data)
  IN IF sent.threw THEN onRejected(sent.st, sent.error)
     ELSE [escaped |-> FALSE, st |-> sent.st]

\* Application.serveStaticFile(stream, pathname)
serveStaticFile(st, pathname) ==
  LET filePath == publicPath \o segmentsOf(pathname)
      read == readFileSync(filePath)
      cache == IF isDev THEN "private, no-cache, must-revalidate"
                        ELSE "public, max-age=86400"
  IN IF ~existsSync(filePath)
       THEN StreamEnd(StreamRespond(st, 404, NULL, NULL).st, TextBody("File not found"))
     ELSE IF read.threw
       THEN StreamEnd(StreamRespond(st, 500, NULL, NULL).st,
                      TextBody("Internal server error"))
     ELSE StreamEnd(StreamRespond(st, 200, getMimeType(toLowerCase(extname(pathname))),
                                  cache).st,
                    FileBody(read.content))


\* what is kept of one request: the headers it came with, the branches of
\* onStream entered for it, the handler calls made for it, how the handler's
\* promise settled, what the view resolver resolved, its stream, and the
\* files as they were when it was dispatched
NoView == [path |-> <<>>, dynamicParams |-> EmptyParams, content |-> <<>>]
NoOutcome == [kind |-> "none"]
IdleReq ==
  [state |-> "idle", rawPath |-> <<>>, method |-> <<>>, branches |-> <<>>,
   calls |-> <<>>, outcome |-> NoOutcome, view |-> NoView, stream |-> NewStream,
   seen |-> FsOf({})]

\* the loop of onStream over this.controllers: index of the first controller
\* whose getHandler is not null, 0 when there is none
\* mutant: the last such controller is taken
lastHandlerController(pathname, method) ==
  LET S == {i \in 1..Len(controllers) :
              getHandler(ctrl[controllers[i]].routes, pathname, method) # NULL}
  IN IF S = {} THEN 0 ELSE CHOOSE i \in S : \A j \in S : i >= j
firstHandlerController(pathname, method) ==
  LET S == {i \in 1..Len(controllers) :
              getHandler(ctrl[controllers[i]].routes, pathname, method) # NULL}
  IN IF S = {} THEN 0 ELSE CHOOSE i \in S : \A j \in S : i <= j

\* a step of onStream: the request record it leaves, whether it returned, the
\* layout cache it leaves, whether an error left onStream
Step(r, returned, cache, threw) ==
  [r |-> r, returned |-> returned, cache |-> cache, threw |-> threw]

\* onStream, "Handle API requests": the handler call or the API 404
\* mutant: no return after the API 404
apiBranchFallsThrough(r, pathname, method) ==
  LET i == firstHandlerController(pathname, method)
  IN IF i # 0
       THEN Step([r EXCEPT !.branches = Append(@, "api"),
                           !.calls = Append(@, [ctrl |-> controllers[i],
                                                handler |-> getHandler(ctrl[controllers[i]].routes,
                                                                       pathname, method)]),
                           !.state = "pending"],
                 TRUE, layoutCache, FALSE)
       ELSE Step([r EXCEPT !.branches = Append(@, "api"),
                           !.stream = StreamEnd(StreamRespond(@, 404, NULL, NULL).st,
                                                JsonBody(JSONerror("API endpoint not found"))),
                           !.state = "done"],
                 FALSE, layoutCache, FALSE)
apiBranch(r, pathname, method) ==
  LET i == firstHandlerController(pathname, method)
  IN IF i # 0
       THEN Step([r EXCEPT !.branches = Append(@, "api"),
                           !.calls = Append(@, [ctrl |-> controllers[i],
                                                handler |-> getHandler(ctrl[controllers[i]].routes,
                                                                       pathname, method)]),
                           !.state = "pending"],
                 TRUE, layoutCache, FALSE)
       ELSE Step([r EXCEPT !.branches = Append(@, "api"),
                           !.stream = StreamEnd(StreamRespond(@, 404, NULL, NULL).st,
                                                JsonBody(JSONerror("API endpoint not found"))),
                           !.state = "done"],
                 TRUE, layoutCache, FALSE)

\* onStream, "Handle static files"
staticBranch(r, pathname) ==
  Step([r EXCEPT !.branches = Append(@, "static"),
                 !.stream = serveStaticFile(@, pathname),
                 !.state = "done"],
       TRUE, layoutCache, FALSE)

\* onStream, "Handle dynamic routes with view engine"
pageRendered(r, rendered) ==
  Step([r EXCEPT !.branches = Append(@, "page"),
                 !.stream = rendered.st,
                 !.view = rendered.view,
                 !.state = "done"],
       TRUE, rendered.cache, rendered.threw)
pageBranch(r, pathname, rawPath) ==
  pageRendered(r, render(r.stream,
                         IF startsWith(pathname, s_slash)
                           THEN SubSeq(pathname, 2, Len(pathname)) ELSE pathname,
                         rawPath))

\* whether onStream takes the request for an API request
\* mutant: the prefix must end at a segment boundary
isAPIRequestBySegment(pathname) ==
  pathname = s_api \/ startsWith(pathname, s_api \o s_slash)
isAPIRequest(pathname) == startsWith(pathname, s_api)

\* the three parts of onStream in turn, each entered unless an earlier one
\* returned
afterApi(r0, pathname, method) ==
  IF isAPIRequest(pathname) THEN apiBranch(r0, pathname, method)
  ELSE Step(r0, FALSE, layoutCache, FALSE)
afterStatic(api, pathname) ==
  IF ~api.returned /\ isStaticFile(pathname) THEN staticBranch(api.r, pathname)
  ELSE api
afterPage(static, pathname, rawPath) ==
  IF ~static.returned THEN pageBranch(static.r, pathname, rawPath) ELSE static
triage(rawPath, pathname, method) ==
  afterPage(afterStatic(afterApi([IdleReq EXCEPT !.rawPath = rawPath,
                                                 !.method = method,
                                                 !.seen = fs],
                                 pathname, method),
                        pathname),
            pathname, rawPath)

\* new URL(rawPath, ...) throws: the error leaves onStream, no branch is
\* entered and nothing is written
urlThrew(rawPath, method) ==
  Step([IdleReq EXCEPT !.rawPath = rawPath, !.method = method, !.seen = fs,
                       !.state = "failed"],
       TRUE, layoutCache, TRUE)

\* the state onStream leaves
dispatched(done) ==
  /\ req' = [req EXCEPT ![nextStream] = done.r]
  /\ layoutCache' = done.cache
  /\ crashed' = done.threw

\* Application.onStream(stream, headers) for the next inbound stream
onStream(rawPath, method) ==
  /\ serving
  /\ ~crashed
  /\ nextStream \in DOMAIN req
  /\ dispatched(IF rawPath # <<>> /\ invalidURL(rawPath)
                  THEN urlThrew(rawPath, method)
                  ELSE triage(rawPath,
                              IF rawPath = <<>> THEN <<>> ELSE pathnameOf(rawPath),
                              method))
  /\ nextStream' = nextStream + 1
  /\ UNCHANGED <<ctrl, controllers, regLog, serving, fs, dirOrder, isDev,
                 reading, held, applied,
                 db, created>>

\* the promise of the handler called for stream s resolves with data: the
\* .then callback runs, and the .catch callback when that one throws
HandlerResolves(s, data) ==
  /\ ~crashed
  /\ req[s].state = "pending"
  /\ LET done == onFulfilled(req[s].stream, data)
     IN /\ req' = [req EXCEPT ![s].stream = done.st, ![s].state = "done",
                              ![s].outcome = [kind |-> "resolved", value |-> data]]
        /\ crashed' = done.escaped
  /\ UNCHANGED <<ctrl, controllers, regLog, serving, nextStream,
                 fs, dirOrder, isDev, layoutCache, reading, held, applied,
                 db, created>>

\* the promise of the handler called for stream s rejects with error
HandlerRejects(s, error) ==
  /\ ~crashed
  /\ req[s].state = "pending"
  /\ LET done == onRejected(req[s].stream, error)
     IN /\ req' = [req EXCEPT ![s].stream = done.st, ![s].state = "done",
                              ![s].outcome = [kind |-> "rejected", error |-> error]]
        /\ crashed' = done.escaped
  /\ UNCHANGED <<ctrl, controllers, regLog, serving, nextStream,
                 fs, dirOrder, isDev, layoutCache, reading, held, applied,
                 db, created>>

\* the peer resets stream s while its handler is pending
ClientAborts(s) ==
  /\ ~crashed
  /\ req[s].state = "pending"
  /\ ~req[s].stream.destroyed
  /\ req' = [req EXCEPT ![s].stream.destroyed = TRUE]
  /\ UNCHANGED <<ctrl, controllers, regLog, serving, nextStream, crashed,
                 fs, dirOrder, isDev, layoutCache, reading, held, applied,
                 db, created>>

\* Application.registerController(controller)
registerController(c) ==
  /\ ~crashed
  /\ ~serving
  /\ c \notin Range(controllers)
  /\ controllers' = Append(controllers, c)
  /\ regLog' = [regLog EXCEPT !.controllers = Append(@, c)]
  /\ UNCHANGED <<ctrl, serving, req, nextStream, crashed,
                 fs, dirOrder, isDev, layoutCache, reading, held, applied,
                 db, created>>

\* Application.serve(): handleEvents binds onStream, the server listens
serve ==
  /\ ~crashed
  /\ ~serving
  /\ serving' = TRUE
  /\ UNCHANGED <<ctrl, controllers, regLog, req, nextStream, crashed,
                 fs, dirOrder, isDev, layoutCache, reading, held, applied,
                 db, created>>

(***************************************************************************)
(* Inputs.                                                                 *)
(***************************************************************************)
n_a == <<"a">>
n_1 == <<"1">>
n_p == <<":","p">>
n_q == <<":","q">>
n_s_css == <<"s",".","c","s","s">>
\* a directory of the public directory whose name ends in a static extension
n_d_css == <<"d",".","c","s","s">>

n_home == s_home
n_404 == s_404

\* basePath of the two controllers
BasePaths == <<<<"/","p">>, <<"/","p","/">>>>

\* arguments of registerRoute
RelPaths == {<<"/","a">>, <<"/","/","a">>, <<"/","A">>}
RegMethods == {<<"g","e","t">>, <<"G","e","t">>, <<"p","o","s","t">>}
\* arguments of registerRoute while the served application boots
BootRelPaths == {<<"/","a">>}
BootMethods == {<<"g","e","t">>}

\* :path and :method of the requests
Request(path, method) == [path |-> path, method |-> method]
Requests ==
  {Request(<<"/","a","p","i","/","p","/","a">>, <<"G","e","t">>),
   Request(<<"/","a","p","i","/","p","/","a">>, <<"p","o","s","t">>),
   Request(<<"/","a","p","i","/","p","/","A">>, <<"G","e","t">>),
   Request(<<"/","a","p","i","/","q">>, <<"G","e","t">>),
   Request(<<"/","s",".","c","s","s">>, <<"G","e","t">>),
   Request(<<"/","t",".","j","s">>, <<"G","e","t">>),
   Request(<<"/","d",".","c","s","s">>, <<"G","e","t">>),
   Request(<<"/","a","p","i","x">>, <<"G","e","t">>),
   Request(<<"/","1">>, <<"G","e","t">>)}

\* the files of the served site in Init
SiteFiles ==
  {pagesPath \o <<s_home_html>>,
   pagesPath \o <<n_p, s_index_html>>,
   notFoundPath,
   layoutPath,
   publicPath \o <<n_s_css>>,
   publicPath \o <<n_d_css, n_a>>}

\* orders in which readdirSync may list the names of a directory
ListingOrders == {<<n_a, n_p, n_q, n_home, n_404>>, <<n_404, n_home, n_q, n_p, n_a>>}

Init ==
  /\ ctrl = [c \in CtrlIds |-> Controller(BasePaths[c])]
  /\ controllers = <<>>
  /\ regLog = [routes |-> [c \in CtrlIds |-> <<>>], controllers |-> <<>>]
  /\ serving = FALSE
  /\ req = [s \in 1..MaxStreams |-> IdleReq]
  /\ nextStream = 1
  /\ crashed = FALSE
  /\ fs = FsOf(SiteFiles)
  /\ dirOrder = <<n_a, n_p, n_q, n_home, n_404>>
  /\ isDev = FALSE
  /\ layoutCache = NoLayout
  /\ reading = NoCall
  /\ held = NoCall
  /\ db = EmptyDatabase
  /\ created = <<>>
  /\ applied = NoCall

Next ==
  \/ \E c \in CtrlIds, path \in BootRelPaths, method \in BootMethods, h \in Handlers :
       registerRoute(c, path, method, h)
  \/ \E c \in CtrlIds : registerController(c)
  \/ serve
  \/ \E r \in Requests : onStream(r.path, r.method)
  \/ \E s \in 1..MaxStreams, data \in Values : HandlerResolves(s, data)
  \/ \E s \in 1..MaxStreams, error \in Errors : HandlerRejects(s, error)
  \/ \E s \in 1..MaxStreams : ClientAborts(s)

\* the server from boot to the answers of its requests
Spec == Init /\ [][Next]_vars

(***************************************************************************)
(* The route registry alone: any sequence of registerRoute calls.          *)
(***************************************************************************)
NextRegistry ==
  \E c \in CtrlIds, path \in RelPaths, method \in RegMethods, h \in Handlers :
    registerRoute(c, path, method, h)

SpecRegistry == Init /\ [][NextRegistry]_vars

(***************************************************************************)
(* The view resolver over every small page tree: one page request against *)
(* a tree of at most MaxFiles files.                                       *)
(***************************************************************************)
DirNames == {n_a, n_p, n_q}

\* the files a page tree is drawn from
TreeFiles ==
  {pagesPath \o <<d, s_index_html>> : d \in DirNames}
  \cup {pagesPath \o <<d \o s_dot_html>> : d \in DirNames}
  \cup {pagesPath \o <<d[1], d[2], s_index_html>> : d \in {n_a, n_p} \X DirNames}
  \cup {pagesPath \o <<n_q, n_q, s_index_html>>,
        pagesPath \o <<n_a, n_a \o s_dot_html>>,
        pagesPath \o <<n_a, n_p \o s_dot_html>>}
  \cup {pagesPath \o <<s_home_html>>,
        pagesPath \o <<s_home, s_index_html>>,
        pagesPath \o <<s_index_html>>,
        notFoundPath, notFoundIndexPath, layoutPath,
        notFoundPath \o <<n_a>>}   \* makes app/404.html a directory

\* the subsets of S of at most k elements
RECURSIVE SubsetsUpTo(_, _)
SubsetsUpTo(S, k) ==
  IF k = 0 THEN {{}}
  ELSE LET smaller == SubsetsUpTo(S, k - 1)
       IN smaller \cup {T \cup {x} : T \in smaller, x \in S}

\* :path of the page requests
ViewPaths ==
  {<<"/">>,
   <<"/","i","n","d","e","x">>,
   <<"/","h","o","m","e">>,
   <<"/","a">>,
   <<"/","1">>,
   <<"/",":","p">>,
   <<"/","a","/","a">>,
   <<"/","a","/","1">>,
   <<"/","1","/","a">>,
   <<"/","1","/","1">>,
   <<"/",":","p","/","a">>}

\* no path of the set is both a file and a directory
IsTree(files) ==
  \A f \in files, g \in files : ~(Len(g) > Len(f) /\ SubSeq(g, 1, Len(f)) = f)

InitView ==
  /\ ctrl = [c \in CtrlIds |-> Controller(BasePaths[c])]
  /\ controllers = <<>>
  /\ regLog = [routes |-> [c \in CtrlIds |-> <<>>], controllers |-> <<>>]
  /\ serving = TRUE
  /\ req = [s \in 1..MaxStreams |-> IdleReq]
  /\ nextStream = 1
  /\ crashed = FALSE
  /\ fs \in {FsOf(files) : files \in {t \in SubsetsUpTo(TreeFiles, MaxFiles) : IsTree(t)}}
  /\ dirOrder \in ListingOrders
  /\ isDev = FALSE
  /\ layoutCache = NoLayout
  /\ reading = NoCall
  /\ held = NoCall
  /\ db = EmptyDatabase
  /\ created = <<>>
  /\ applied = NoCall

NextView ==
  \E rawPath \in ViewPaths :
    nextStream = 1 /\ onStream(rawPath, <<"G","E","T">>)

SpecView == InitView /\ [][NextView]_vars

(***************************************************************************)
(* The served site while its files change: page requests, one after the    *)
(* other, with edits, removals and permission changes of the layout and of *)
(* a page template between them, in either mode.                           *)
(***************************************************************************)
ChangingFiles == {layoutPath, pagesPath \o <<n_p, s_index_html>>}

\* the number of changes made to the changing files so far (a file that is
\* gone or unreadable counts for one)
changesOf(f) ==
  IF f \notin DOMAIN fs \/ fs[f] = Unreadable THEN 1 ELSE fs[f]
Changes ==
  changesOf(layoutPath) + changesOf(pagesPath \o <<n_p, s_index_html>>)

\* a file of the site is written again with new text
fileEdited(f) ==
  /\ ~crashed
  /\ Changes < MaxEdits
  /\ f \in DOMAIN fs /\ fs[f] # Unreadable
  /\ fs' = [fs EXCEPT ![f] = @ + 1]
  /\ UNCHANGED <<ctrl, controllers, regLog, serving, req, nextStream, crashed,
                 dirOrder, isDev, layoutCache, reading, held, applied,
                 db, created>>

\* a file of the site is unlinked
fileRemoved(f) ==
  /\ ~crashed
  /\ Changes < MaxEdits
  /\ f \in DOMAIN fs /\ fs[f] # Unreadable
  /\ fs' = [g \in (DOMAIN fs) \ {f} |-> fs[g]]
  /\ UNCHANGED <<ctrl, controllers, regLog, serving, req, nextStream, crashed,
                 dirOrder, isDev, layoutCache, reading, held, applied,
                 db, created>>

\* a file of the site stops being readable: it still exists for existsSync
\* and readFileSync throws
fileUnreadable(f) ==
  /\ ~crashed
  /\ Changes < MaxEdits
  /\ f \in DOMAIN fs /\ fs[f] # Unreadable
  /\ fs' = [fs EXCEPT ![f] = Unreadable]
  /\ UNCHANGED <<ctrl, controllers, regLog, serving, req, nextStream, crashed,
                 dirOrder, isDev, layoutCache, reading, held, applied,
                 db, created>>

\* :path of the requests
SitePaths == {<<"/">>, <<"/","1">>, <<"/","/">>}

\* the pages directory may be listed, or not
SiteTrees ==
  {FsOf(SiteFiles),
   [f \in SiteFiles \cup {pagesPath} |-> IF f = pagesPath THEN Unreadable ELSE 0]}

InitSite ==
  /\ ctrl = [c \in CtrlIds |-> Controller(BasePaths[c])]
  /\ controllers = <<>>
  /\ regLog = [routes |-> [c \in CtrlIds |-> <<>>], controllers |-> <<>>]
  /\ serving = TRUE
  /\ req = [s \in 1..(MaxStreams + 2) |-> IdleReq]
  /\ nextStream = 1
  /\ crashed = FALSE
  /\ fs \in SiteTrees
  /\ dirOrder = <<n_a, n_p, n_q, n_home, n_404>>
  /\ isDev \in BOOLEAN
  /\ layoutCache = NoLayout
  /\ reading = NoCall
  /\ held = NoCall
  /\ db = EmptyDatabase
  /\ created = <<>>
  /\ applied = NoCall

NextSite ==
  \/ \E rawPath \in SitePaths : onStream(rawPath, <<"G","E","T">>)
  \/ \E f \in ChangingFiles : fileEdited(f)
  \/ \E f \in ChangingFiles : fileRemoved(f)
  \/ \E f \in ChangingFiles : fileUnreadable(f)

SpecSite == InitSite /\ [][NextSite]_vars

(***************************************************************************)
(* parseVariables applied to one template and one data object.             *)
(***************************************************************************)
n_x == <<"x">>
n_y == <<"y">>

\* texts without a placeholder
PlainTexts == {<<>>, <<"a">>, <<"{">>, <<"}","}">>}
\* texts between doubled braces
Keys ==
  {<<"x">>, <<"y">>, <<"x",".","y">>, <<"x",".","0">>,
   <<"x",".","l","e","n","g","t","h">>, <<"x",".","y",".","l","e","n","g","t","h">>,
   <<"x",".">>, <<".">>, <<"x",".",".","y">>,
   <<" ","x"," ">>, <<"x","-","y">>, <<>>}
\* the data objects: x absent, a string, or an object with a property y
DataObjects ==
  {JsObject(EmptyParams)}
  \cup {JsObject([n \in {n_x} |-> JsString(v)]) : v \in {<<>>, <<"a","b">>}}
  \cup {JsObject([n \in {n_x} |-> JsObject([m \in {n_y} |-> JsString(v)])]) :
          v \in {<<>>, <<"c">>}}
  \cup {JsObject([n \in {n_x} |-> JsObject(EmptyParams)])}

\* the template pre{{key}}post
templateOf(arg) == arg.pre \o <<"{","{">> \o arg.key \o <<"}","}">> \o arg.post

InitInterpolation ==
  /\ ctrl = [c \in CtrlIds |-> Controller(BasePaths[c])]
  /\ controllers = <<>>
  /\ regLog = [routes |-> [c \in CtrlIds |-> <<>>], controllers |-> <<>>]
  /\ serving = FALSE
  /\ req = [s \in 1..MaxStreams |-> IdleReq]
  /\ nextStream = 1
  /\ crashed = FALSE
  /\ fs = FsOf(SiteFiles)
  /\ dirOrder = <<n_a, n_p, n_q, n_home, n_404>>
  /\ isDev = FALSE
  /\ layoutCache = NoLayout
  /\ reading = NoCall
  /\ held = NoCall
  /\ db = EmptyDatabase
  /\ created = <<>>
  /\ applied \in {[called |-> FALSE, pre |-> pre, key |-> key, post |-> post,
                   data |-> data, result |-> <<>>] :
                    pre \in PlainTexts, key \in Keys, post \in PlainTexts,
                    data \in DataObjects}

\* this.parseVariables(template, data)
parseVariablesCalled ==
  /\ ~applied.called
  /\ applied' = [applied EXCEPT !.called = TRUE,
                                !.result = parseVariables(templateOf(applied), applied.data)]
  /\ UNCHANGED <<ctrl, controllers, regLog, serving, req, nextStream, crashed,
                 fs, dirOrder, isDev, layoutCache, reading, held,
                 db, created>>

SpecInterpolation == InitInterpolation /\ [][parseVariablesCalled]_vars

(***************************************************************************)
(* The two queryParams applied to one path.                                *)
(***************************************************************************)
\* the paths: what precedes the query, then the query
QueryBases == {<<"/">>, <<"/","p">>, <<"h","t","t","p",":","/","/","e","/","p">>}
Queries ==
  {<<>>, <<"?">>, <<"?","k","=">>, <<"?","k">>,
   <<"?","a","=","1","&","b","=","2">>,
   <<"?","a","=","1","&","a","=","2">>,
   <<"?","a","=","1","#","f">>,
   <<"?","a","=","1","?","b">>,
   <<"?","&","a","=","1">>,
   <<"?","=","x">>,
   <<"?","a","=","1","&","&","b","=","2">>,
   <<"?","a","=","b","=","c">>,
   <<"#","f","?","a","=","1">>}

NotCalled == [called |-> FALSE, result |-> EmptyParams]

InitQuery ==
  /\ ctrl = [c \in CtrlIds |-> Controller(BasePaths[c])]
  /\ controllers = <<>>
  /\ regLog = [routes |-> [c \in CtrlIds |-> <<>>], controllers |-> <<>>]
  /\ serving = FALSE
  /\ req = [s \in 1..MaxStreams |-> IdleReq]
  /\ nextStream = 1
  /\ crashed = FALSE
  /\ fs = FsOf(SiteFiles)
  /\ dirOrder = <<n_a, n_p, n_q, n_home, n_404>>
  /\ isDev = FALSE
  /\ layoutCache = NoLayout
  /\ reading = NoCall
  /\ held = NoCall
  /\ db = EmptyDatabase
  /\ created = <<>>
  /\ applied \in {[base |-> base, query |-> query,
                   ofRequest |-> NotCalled, ofUrl |-> NotCalled] :
                    base \in QueryBases, query \in Queries}

\* queryParams(path) of utils/request.ts
queryParamsCalled ==
  /\ ~applied.ofRequest.called
  /\ applied' = [applied EXCEPT !.ofRequest =
                   [called |-> TRUE,
                    result |-> queryParams(applied.base \o applied.query)]]
  /\ UNCHANGED <<ctrl, controllers, regLog, serving, req, nextStream, crashed,
                 fs, dirOrder, isDev, layoutCache, reading, held,
                 db, created>>

\* queryParams(path) of utils/url.ts
queryParamsOfUrlCalled ==
  /\ ~applied.ofUrl.called
  /\ applied' = [applied EXCEPT !.ofUrl =
                   [called |-> TRUE,
                    result |-> queryParamsOfUrl(applied.base \o applied.query)]]
  /\ UNCHANGED <<ctrl, controllers, regLog, serving, req, nextStream, crashed,
                 fs, dirOrder, isDev, layoutCache, reading, held,
                 db, created>>

NextQuery == queryParamsCalled \/ queryParamsOfUrlCalled

SpecQuery == InitQuery /\ [][NextQuery]_vars

(***************************************************************************)
(* Request bodies: utils/request.ts, getBody(stream, options), and the     *)
(* events of the stream it listens to.                                     *)
(***************************************************************************)
JSON_CONTENT_TYPE == <<"a","p","p","l","i","c","a","t","i","o","n","/","j","s","o","n">>

\* headers['content-type']
NoHeader == [present |-> FALSE, value |-> <<>>]
Header(value) == [present |-> TRUE, value |-> value]

\* headers['content-type'] && !headers['content-type']?.startsWith(contentType)
unsupported(header) ==
  header.present /\ header.value # <<>> /\ ~startsWith(header.value, JSON_CONTENT_TYPE)

\* bodyLength > maxSize
\* mutant: a body of exactly maxSize bytes is refused
tooLargeAtLimit(bodyLength, maxSize) == bodyLength >= maxSize
tooLarge(bodyLength, maxSize) == bodyLength > maxSize

\* Buffer.concat(chunks).toString('utf8')
RECURSIVE concat(_)
concat(chunks) == IF chunks = <<>> THEN <<>> ELSE Head(chunks) \o concat(Tail(chunks))

\* String.prototype.trim on texts whose only white space is ' '
trim(text) ==
  LET S == {i \in 1..Len(text) : text[i] # " "}
  IN IF S = {} THEN <<>>
     ELSE SubSeq(text, CHOOSE i \in S : \A j \in S : i <= j,
                       CHOOSE i \in S : \A j \in S : i >= j)

\* JSON.parse on texts over '{', '}', ' ', '1' and 'x': an empty object with
\* any spacing and a run of digits are JSON texts, nothing else is
EmptyObject == [kind |-> "object"]
JSONparse(text) ==
  IF SelectSeq(text, LAMBDA c : c # " ") = <<"{", "}">>
    THEN [threw |-> FALSE, value |-> EmptyObject]
  ELSE IF trim(text) # <<>> /\ \A i \in 1..Len(trim(text)) : trim(text)[i] = "1"
    THEN [threw |-> FALSE, value |-> [kind |-> "number", digits |-> trim(text)]]
  ELSE [threw |-> TRUE, value |-> EmptyObject]

\* the promise getBody returns
Pending == [state |-> "pending", value |-> [kind |-> "none"]]
Resolved(value) == [state |-> "resolved", value |-> value]
Rejected(message) == [state |-> "rejected", value |-> [kind |-> "error", message |-> message]]

\* resolve(...) or reject(...) is called: only the first call settles
settle(r, outcome) ==
  [r EXCEPT !.promise = IF @.state = "pending" THEN outcome ELSE @,
            !.settles = @ + 1]

\* cleanup(): removeAllListeners for 'data', 'end' and 'error'
\* mutant: the 'end' listener is left in place
cleanupKeepsEnd(r) == [r EXCEPT !.listeners = @ \ {"data", "error"}]
cleanup(r) == [r EXCEPT !.listeners = {}]

\* the 'data' listener
onData(r, chunk) ==
  IF tooLarge(r.bodyLength + Len(chunk), r.maxSize)
    THEN settle(cleanup([r EXCEPT !.bodyLength = @ + Len(chunk)]),
                Rejected("Request body too large"))
    ELSE [r EXCEPT !.bodyLength = @ + Len(chunk), !.chunks = Append(@, chunk)]

\* the 'end' listener: try, catch, finally
onEnd(r) ==
  IF ~r.parseJson
    THEN cleanup(settle(r, Resolved([kind |-> "text", text |-> concat(r.chunks)])))
  ELSE IF trim(concat(r.chunks)) = <<>>
    THEN cleanup(settle(r, Resolved(EmptyObject)))
  ELSE IF JSONparse(concat(r.chunks)).threw
    THEN cleanup(settle([r EXCEPT !.parsed = TRUE],
                        Rejected("Failed to parse request body")))
  ELSE cleanup(settle([r EXCEPT !.parsed = TRUE],
                      Resolved(JSONparse(concat(r.chunks)).value)))

\* the 'error' listener
onError(r) == settle(cleanup(r), Rejected("Stream error"))

\* getBody(stream, { maxSize, parseJson, headers }): the content type is
\* checked, then the listeners are attached and the stream starts to flow
getBodyCalled(header, maxSize, parseJson) ==
  /\ ~crashed
  /\ ~reading.called
  /\ reading' =
       [called |-> TRUE, header |-> header, maxSize |-> maxSize,
        parseJson |-> parseJson,
        listeners |-> IF unsupported(header) THEN {} ELSE {"data", "end", "error"},
        flowing |-> ~unsupported(header),
        bodyLength |-> 0, chunks |-> <<>>,
        promise |-> IF unsupported(header) THEN Rejected("Unsupported content type")
                                           ELSE Pending,
        settles |-> IF unsupported(header) THEN 1 ELSE 0,
        parsed |-> FALSE,
        stream |-> "open",
        log |-> <<>>]
  /\ UNCHANGED <<ctrl, controllers, regLog, serving, req, nextStream, crashed,
                 fs, dirOrder, isDev, layoutCache, held, applied,
                 db, created>>

\* number of 'data' events so far
DataEvents(r) == Len(SelectSeq(r.log, LAMBDA e : e.event = "data"))

\* the stream emits 'data' with a chunk
streamData(chunk) ==
  /\ ~crashed
  /\ reading.called /\ reading.flowing /\ reading.stream = "open"
  /\ DataEvents(reading) < MaxChunks
  /\ LET logged == [reading EXCEPT !.log = Append(@, [event |-> "data", chunk |-> chunk])]
     IN reading' = IF "data" \in reading.listeners THEN onData(logged, chunk) ELSE logged
  /\ UNCHANGED <<ctrl, controllers, regLog, serving, req, nextStream, crashed,
                 fs, dirOrder, isDev, layoutCache, held, applied,
                 db, created>>

\* the stream emits 'end'
streamEnds ==
  /\ ~crashed
  /\ reading.called /\ reading.flowing /\ reading.stream = "open"
  /\ LET logged == [reading EXCEPT !.log = Append(@, [event |-> "end", chunk |-> <<>>]),
                                   !.stream = "ended"]
     IN reading' = IF "end" \in reading.listeners THEN onEnd(logged) ELSE logged
  /\ UNCHANGED <<ctrl, controllers, regLog, serving, req, nextStream, crashed,
                 fs, dirOrder, isDev, layoutCache, held, applied,
                 db, created>>

\* the stream emits 'error': with no 'error' listener left the emit throws
\* and the error reaches the process level
streamErrors ==
  /\ ~crashed
  /\ reading.called /\ reading.stream \in {"open", "ended"}
  /\ LET logged == [reading EXCEPT !.log = Append(@, [event |-> "error", chunk |-> <<>>]),
                                   !.stream = "errored"]
     IN /\ reading' = IF "error" \in reading.listeners THEN onError(logged) ELSE logged
        /\ crashed' = ("error" \notin reading.listeners)
  /\ UNCHANGED <<ctrl, controllers, regLog, serving, req, nextStream,
                 fs, dirOrder, isDev, layoutCache, held, applied,
                 db, created>>

\* inputs of getBody
ContentTypes ==
  {NoHeader,
   Header(JSON_CONTENT_TYPE),
   Header(JSON_CONTENT_TYPE \o <<";"," ","c","h","a","r","s","e","t","=","u","t","f","-","8">>),
   Header(<<"t","e","x","t","/","p","l","a","i","n">>),
   Header(<<"A","p","p","l","i","c","a","t","i","o","n","/","J","S","O","N">>)}
MaxSizes == {2, 4}
Chunks == {<<"{">>, <<"}">>, <<"{","}">>, <<" ">>, <<"1">>, <<"x">>}

InitBody ==
  /\ ctrl = [c \in CtrlIds |-> Controller(BasePaths[c])]
  /\ controllers = <<>>
  /\ regLog = [routes |-> [c \in CtrlIds |-> <<>>], controllers |-> <<>>]
  /\ serving = FALSE
  /\ req = [s \in 1..MaxStreams |-> IdleReq]
  /\ nextStream = 1
  /\ crashed = FALSE
  /\ fs = FsOf(SiteFiles)
  /\ dirOrder = <<n_a, n_p, n_q, n_home, n_404>>
  /\ isDev = FALSE
  /\ layoutCache = NoLayout
  /\ reading = NoCall
  /\ held = NoCall
  /\ db = EmptyDatabase
  /\ created = <<>>
  /\ applied = NoCall

NextBody ==
  \/ \E header \in ContentTypes, maxSize \in MaxSizes, parseJson \in BOOLEAN :
       getBodyCalled(header, maxSize, parseJson)
  \/ \E chunk \in Chunks : streamData(chunk)
  \/ streamEnds
  \/ streamErrors

SpecBody == InitBody /\ [][NextBody]_vars

(***************************************************************************)
(* A caller of Controller.getRoutes and what it does with the array.  The  *)
(* array is new, its elements are the route objects of the controller: an  *)
(* element is a reference, the position of the object in this.routes, or   *)
(* an object the caller made itself.                                       *)
(***************************************************************************)
NoRoute == [path |-> <<>>, method |-> <<>>, handler |-> NULL]
Ref(i) == [ref |-> i, route |-> NoRoute]
Own(route) == [ref |-> 0, route |-> route]

\* const routes = controller.getRoutes(): [...this.routes]
getRoutesCalled(c) ==
  /\ ~held.called
  /\ held' = [called |-> TRUE, ctrl |-> c, ops |-> 0,
              array |-> [i \in 1..Len(ctrl[c].routes) |-> Ref(i)]]
  /\ UNCHANGED <<ctrl, controllers, regLog, serving, req, nextStream, crashed,
                 fs, dirOrder, isDev, layoutCache, reading, applied,
                 db, created>>

\* routes.push(route)
callerPushes(route) ==
  /\ held.called /\ held.ops < MaxOps
  /\ held' = [held EXCEPT !.array = Append(@, Own(route)), !.ops = @ + 1]
  /\ UNCHANGED <<ctrl, controllers, regLog, serving, req, nextStream, crashed,
                 fs, dirOrder, isDev, layoutCache, reading, applied,
                 db, created>>

\* routes.pop()
callerPops ==
  /\ held.called /\ held.ops < MaxOps
  /\ held.array # <<>>
  /\ held' = [held EXCEPT !.array = SubSeq(@, 1, Len(@) - 1), !.ops = @ + 1]
  /\ UNCHANGED <<ctrl, controllers, regLog, serving, req, nextStream, crashed,
                 fs, dirOrder, isDev, layoutCache, reading, applied,
                 db, created>>

\* routes.reverse()
callerReverses ==
  /\ held.called /\ held.ops < MaxOps
  /\ Len(held.array) > 1
  /\ held' = [held EXCEPT !.array = [i \in 1..Len(@) |-> @[Len(@) + 1 - i]],
                          !.ops = @ + 1]
  /\ UNCHANGED <<ctrl, controllers, regLog, serving, req, nextStream, crashed,
                 fs, dirOrder, isDev, layoutCache, reading, applied,
                 db, created>>

\* routes[i].path = value, routes[i].method = value, routes[i].handler = value:
\* the assignment lands in the object the element refers to
callerSets(i, field, value) ==
  /\ held.called /\ held.ops < MaxOps
  /\ i \in 1..Len(held.array)
  /\ IF held.array[i].ref # 0
       THEN /\ ctrl' = [ctrl EXCEPT ![held.ctrl].routes[held.array[i].ref] =
                          [@ EXCEPT ![field] = value]]
            /\ held' = [held EXCEPT !.ops = @ + 1]
       ELSE /\ held' = [held EXCEPT !.array[i].route = [@ EXCEPT ![field] = value],
                                    !.ops = @ + 1]
            /\ UNCHANGED ctrl
  /\ UNCHANGED <<controllers, regLog, serving, req, nextStream, crashed,
                 fs, dirOrder, isDev, layoutCache, reading, applied,
                 db, created>>

\* what the caller assigns to the fields of a route
CallerPath == <<"/","a","p","i","/","q">>
CallerMethod == <<"P","O","S","T">>
CallerHandler == "H2"
\* the route the caller pushes
CallerRoute == [path |-> CallerPath, method |-> <<"G","E","T">>, handler |-> "H1"]

NextRoutes ==
  \/ \E c \in CtrlIds, path \in BootRelPaths, method \in BootMethods, h \in Handlers :
       registerRoute(c, path, method, h)
  \/ \E c \in CtrlIds : getRoutesCalled(c)
  \/ callerPushes(CallerRoute)
  \/ callerPops
  \/ callerReverses
  \/ \E i \in 1..(MaxRoutes + MaxOps) : callerSets(i, "path", CallerPath)
  \/ \E i \in 1..(MaxRoutes + MaxOps) : callerSets(i, "method", CallerMethod)
  \/ \E i \in 1..(MaxRoutes + MaxOps) : callerSets(i, "handler", CallerHandler)

\* a controller, its registrations and one caller of getRoutes
SpecRoutes == Init /\ [][NextRoutes]_vars

(***************************************************************************)
(* Transport errors on request streams.  onStream attaches no 'error'      *)
(* listener to the stream; getBody, called by the handler of one request,  *)
(* attaches one and removes every 'error' listener again in cleanup().     *)
(* An 'error' event emitted with no listener is thrown by emit and reaches *)
(* the process level.                                                      *)
(***************************************************************************)
\* the stream whose handler reads the request body
BodyStream == 1

\* the application after start-up: one controller, one route, listening
InitServing ==
  /\ ctrl = [c \in CtrlIds |->
               IF c = 1
                 THEN [Controller(BasePaths[c]) EXCEPT
                         !.routes = <<NewRoute(BasePaths[c], <<"/","a">>, <<"g","e","t">>, "H1")>>]
                 ELSE Controller(BasePaths[c])]
  /\ controllers = <<1>>
  /\ regLog = [routes |-> [c \in CtrlIds |->
                             IF c = 1
                               THEN <<[path |-> <<"/","a">>, method |-> <<"g","e","t">>,
                                       handler |-> "H1"]>>
                               ELSE <<>>],
               controllers |-> <<1>>]
  /\ serving = TRUE
  /\ req = [s \in 1..(MaxStreams + 1) |-> IdleReq]
  /\ nextStream = 1
  /\ crashed = FALSE
  /\ fs = FsOf(SiteFiles)
  /\ dirOrder = <<n_a, n_p, n_q, n_home, n_404>>
  /\ isDev = FALSE
  /\ layoutCache = NoLayout
  /\ reading = NoCall
  /\ held = NoCall
  /\ db = EmptyDatabase
  /\ created = <<>>
  /\ applied = NoCall

\* the pending handler of the body stream calls getBody(stream)
handlerCallsGetBody ==
  /\ req[BodyStream].state = "pending"
  /\ ~req[BodyStream].stream.destroyed
  /\ getBodyCalled(NoHeader, 2, TRUE)

\* the session emits 'error' on request stream s and destroys it: the
\* listeners of the event are those getBody has attached and not yet removed
requestStreamErrors(s) ==
  /\ ~crashed
  /\ req[s].state # "idle"
  /\ ~req[s].stream.destroyed
  /\ req' = [req EXCEPT ![s].stream.destroyed = TRUE]
  /\ IF s = BodyStream /\ reading.called
       THEN LET logged == [reading EXCEPT
                             !.log = Append(@, [event |-> "error", chunk |-> <<>>]),
                             !.stream = "errored"]
            IN /\ reading' = IF "error" \in reading.listeners THEN onError(logged)
                                                              ELSE logged
               /\ crashed' = ("error" \notin reading.listeners)
       ELSE /\ reading' = reading
            /\ crashed' = TRUE
  /\ UNCHANGED <<ctrl, controllers, regLog, serving, nextStream,
                 fs, dirOrder, isDev, layoutCache, held, applied,
                 db, created>>

ErrorRequests ==
  {Request(<<"/","a","p","i","/","p","/","a">>, <<"G","e","t">>),
   Request(<<"/","1">>, <<"G","e","t">>)}

NextErrors ==
  \/ \E r \in ErrorRequests : onStream(r.path, r.method)
  \/ \E s \in 1..(MaxStreams + 1) : HandlerResolves(s, [tag |-> "data"])
  \/ \E s \in 1..(MaxStreams + 1), error \in Errors : HandlerRejects(s, error)
  \/ handlerCallsGetBody
  \/ \E chunk \in {<<"{","}">>, <<"x">>} : streamData(chunk)
  \/ streamEnds
  \/ \E s \in 1..(MaxStreams + 1) : requestStreamErrors(s)

\* the served application with transport errors on its streams
SpecErrors == InitServing /\ [][NextErrors]_vars

(***************************************************************************)
(* Several requests in flight.  The promise of a handler settles, and the  *)
(* .then/.catch callbacks of onStream run afterwards as a reaction job.    *)
(***************************************************************************)
\* the promise of the handler called for stream s settles
handlerSettles(s, outcome) ==
  /\ ~crashed
  /\ req[s].state = "pending"
  /\ req' = [req EXCEPT ![s].state = "settled", ![s].outcome = outcome]
  /\ UNCHANGED <<ctrl, controllers, regLog, serving, nextStream, crashed,
                 fs, dirOrder, isDev, layoutCache, reading, held, applied,
                 db, created>>

\* the reaction job of stream s runs: .then((data) => this.sendJSON(...)) and
\* .catch(...)
reactionRuns(s) ==
  /\ ~crashed
  /\ req[s].state = "settled"
  /\ LET done == IF req[s].outcome.kind = "resolved"
                   THEN onFulfilled(req[s].stream, req[s].outcome.value)
                   ELSE onRejected(req[s].stream, req[s].outcome.error)
     IN /\ req' = [req EXCEPT ![s].stream = done.st, ![s].state = "done"]
        /\ crashed' = done.escaped
  /\ UNCHANGED <<ctrl, controllers, regLog, serving, nextStream,
                 fs, dirOrder, isDev, layoutCache, reading, held, applied,
                 db, created>>

TrafficRequests ==
  {Request(<<"/","a","p","i","/","p","/","a">>, <<"G","e","t">>),
   Request(<<"/","a","p","i","/","q">>, <<"G","e","t">>),
   Request(<<"/","s",".","c","s","s">>, <<"G","e","t">>),
   Request(<<"/","1">>, <<"G","e","t">>)}

NextTraffic ==
  \/ \E r \in TrafficRequests : onStream(r.path, r.method)
  \/ \E s \in 1..(MaxStreams + 1), data \in Values :
       handlerSettles(s, [kind |-> "resolved", value |-> data])
  \/ \E s \in 1..(MaxStreams + 1), error \in Errors :
       handlerSettles(s, [kind |-> "rejected", error |-> error])
  \/ \E s \in 1..(MaxStreams + 1) : reactionRuns(s)
  \/ \E s \in 1..(MaxStreams + 1) : ClientAborts(s)

\* the served application with requests in flight
SpecTraffic == InitServing /\ [][NextTraffic]_vars

\* a queued reaction job runs: the microtask queue is drained after every
\* callback
FairSpecTraffic ==
  SpecTraffic /\ \A s \in 1..(MaxStreams + 1) : WF_vars(reactionRuns(s))

(***************************************************************************)
(* Polls and votes: services/polls.ts and services/vote.ts over the SQLite *)
(* tables of utils/table.ts, called by the poll and vote controllers.      *)
(* A row keeps the columns the operations below read or write.             *)
(***************************************************************************)
MaxPolls == 2   \* rows the polls table may hold
MaxVotes == 1   \* rows the votes table may hold

\* the columns setupTables gives the polls table
PollColumns ==
  {"question", "created_at", "expires_at", "options",
   "is_public", "is_anonymous", "is_multiple_choice", "id"}

\* stmt.run(values) of INSERT INTO t (columns) VALUES (?, ...): the i-th
\* value is bound to the i-th column
bind(columns, values) ==
  [c \in Range(columns) |->
     values[CHOOSE i \in 1..Len(columns) : columns[i] = c]]

\* JSON.stringify of an array of strings without '"' or '\'
JSONstringifyArray(options) ==
  <<"[">>
    \o joinSeq([i \in 1..Len(options) |-> <<"\"">> \o options[i] \o <<"\"">>],
               <<",">>)
    \o <<"]">>

\* a JSON string literal without escapes
IsQuoted(piece) ==
  /\ Len(piece) >= 2
  /\ piece[1] = "\"" /\ piece[Len(piece)] = "\""
  /\ \A i \in 2..(Len(piece) - 1) : piece[i] \notin {"\"", "\\"}

\* JSON.parse on the texts a TEXT column holds here: an array of string
\* literals without ',' is an array, the rest is as in JSONparse
JSONparseText(text) ==
  IF Len(text) >= 2 /\ text[1] = "[" /\ text[Len(text)] = "]"
    THEN LET inner == SubSeq(text, 2, Len(text) - 1)
             pieces == IF inner = <<>> THEN <<>> ELSE split(inner, ",")
         IN IF \A i \in 1..Len(pieces) : IsQuoted(pieces[i])
              THEN [threw |-> FALSE,
                    value |-> [kind |-> "array",
                               items |-> [i \in 1..Len(pieces) |->
                                  SubSeq(pieces[i], 2, Len(pieces[i]) - 1)]]]
              ELSE [threw |-> TRUE, value |-> EmptyObject]
  ELSE JSONparse(text)

\* the JavaScript array of strings
ArrayOf(items) == [kind |-> "array", items |-> items]

\* value[i] in JavaScript, and whether it is truthy
elementAt(value, i) ==
  IF value.kind = "array" /\ (i + 1) \in 1..Len(value.items)
    THEN [defined |-> TRUE, text |-> value.items[i + 1]]
    ELSE [defined |-> FALSE, text |-> <<>>]
truthyElement(e) == e.defined /\ e.text # <<>>

\* the API responses of the services and controllers
Failure(error) == [success |-> FALSE, error |-> error, data |-> NULL]
Success(data) == [success |-> TRUE, error |-> "none", data |-> data]
\* what a service call did: the database after it, whether it threw, its reply
Returned(d, reply) == [db |-> d, threw |-> FALSE, message |-> "none", reply |-> reply]
Threw(d, message) == [db |-> d, threw |-> TRUE, message |-> message, reply |-> Failure(message)]

\* PollService.createPoll(pollData)
createPoll(d, pollData) ==
  LET optionsJson == JSONstringifyArray(pollData.options)
      pollId == Len(d.polls) + 1
      row == ("id" :> pollId)
               @@ bind(<<"question", "options">>,
                       <<optionsJson, pollData.question>>)
  IN Returned([d EXCEPT !.polls = Append(@, row)],
              Success([id |-> pollId, question |-> pollData.question,
                       options |-> ArrayOf(pollData.options),
                       userId |-> pollData.userId]))

\* PollService.isExistingPoll(pollId)
isExistingPoll(d, pollId) ==
  Len(SelectSeq(d.polls, LAMBDA r : r.id = pollId)) > 0

\* PollService.getPollById(pollId)
getPollById(d, pollId) ==
  LET rows == SelectSeq(d.polls, LAMBDA r : r.id = pollId)
  IN IF rows = <<>> THEN Returned(d, Failure("Poll not found"))
     ELSE LET row == rows[1]
              options == JSONparseText(row.options)
          IN IF options.threw THEN Threw(d, "Unexpected token")
             ELSE Returned(d, Success([id |-> row.id,
                                       question |-> row.question,
                                       options |-> options.value]))

\* PollService.fetchPollsByUser(userId): prepare() throws on a column the
\* table does not have
fetchPollsByUser(d, userId) ==
  IF "user_id" \notin PollColumns THEN Threw(d, "no such column: user_id")
  ELSE LET rows == SelectSeq(d.polls, LAMBDA r : r.user_id = userId)
       IN IF Len(rows) = 0
            THEN Returned(d, Failure("No polls found for this user"))
          ELSE Returned(d, Success([i \in 1..Len(rows) |->
                 [id |-> rows[i].id, question |-> rows[i].question,
                  options |-> JSONparseText(rows[i].options).value]]))

\* VoteService.castVote(pollId, optionId, userId)
castVote(d, pollId, optionId, userId) ==
  IF ~isExistingPoll(d, pollId) THEN Returned(d, Failure("Poll not found"))
  ELSE LET poll == getPollById(d, pollId)
       IN IF poll.threw THEN poll
          ELSE IF ~truthyElement(elementAt(poll.reply.data.options, optionId))
            THEN Returned(d, Failure("Option not found in the poll"))
          ELSE Returned([d EXCEPT !.votes = Append(@,
                           [poll_id |-> pollId, option_id |-> optionId,
                            user_id |-> userId])],
                        Success([poll_id |-> pollId, option_id |-> optionId,
                                 user_id |-> userId]))

\* a try block whose catch answers with the error's message
caught(outcome) ==
  IF outcome.threw THEN Returned(outcome.db, Failure(outcome.message))
  ELSE outcome

\* PollController.createPoll(query, stream, headers), the body already read
createPollHandler(d, query, body) ==
  IF trim(body.question) = <<>>
    THEN Returned(d, Failure("Question is required"))
  ELSE IF Len(body.options) < 2
    THEN Returned(d, Failure("At least two options are required"))
  ELSE LET options == SelectSeq([i \in 1..Len(body.options) |->
                                   trim(body.options[i])],
                                LAMBDA opt : Len(opt) > 0)
       IN IF Len(options) < 2
            THEN Returned(d, Failure("At least two non-empty options are required"))
          ELSE caught(createPoll(d, [question |-> trim(body.question),
                                     options |-> options,
                                     userId |-> query.userId]))

\* PollController.fetchPollsByUser(query, stream)
fetchPollsByUserHandler(d, query) ==
  IF query.userId = <<>> THEN Returned(d, Failure("User ID is required"))
  ELSE LET polls == fetchPollsByUser(d, query.userId)
       IN IF polls.threw THEN caught(polls)
          ELSE IF ~polls.reply.success
            THEN Returned(d, [success |-> TRUE,
                              error |-> "No polls found for this user",
                              data |-> <<>>])
          ELSE Returned(d, Success(polls.reply.data))

\* a JSON number or string in a request body
JsonNumber(n) == [kind |-> "number", n |-> n, text |-> <<>>]
JsonString(text) == [kind |-> "string", n |-> 0, text |-> text]
\* !v is false and Number(v) of a number or a string of one digit
truthyJson(v) == IF v.kind = "number" THEN v.n # 0 ELSE v.text # <<>>
Number(v) ==
  IF v.kind = "number" THEN v.n
  ELSE CHOOSE n \in 0..9 : <<DigitOf(n)>> = v.text

\* VoteController.castVote(query, stream, headers), the body already read
castVoteHandler(d, body) ==
  IF ~truthyJson(body.pollId) \/ ~truthyJson(body.optionId)
    THEN Returned(d, Failure("pollId and optionId are required"))
  ELSE caught(castVote(d, Number(body.pollId), Number(body.optionId),
                       IF truthyJson(body.userId) THEN Number(body.userId)
                       ELSE NULL))

\* the inputs
s_q == <<"q">>
s_xy == <<"[", "\"", "x", "\"", ",", "\"", "y", "\"", "]">>
Questions == {s_q, s_xy, <<" ">>}
OptionLists ==
  {<<<<"a">>, <<"b">>>>, <<<<"b">>, <<"a">>, <<"c">>>>, <<<<"a">>, <<>>>>}
UserIds == {<<"1">>, <<"2">>}
VoterIds == {<<"1">>}
PollIds == 1..MaxPolls
OptionIds == {JsonNumber(0), JsonNumber(1), JsonNumber(5), JsonString(<<"0">>)}

InitPolls ==
  /\ ctrl = [c \in CtrlIds |-> Controller(BasePaths[c])]
  /\ controllers = <<>>
  /\ regLog = [routes |-> [c \in CtrlIds |-> <<>>], controllers |-> <<>>]
  /\ serving = FALSE
  /\ req = [s \in 1..MaxStreams |-> IdleReq]
  /\ nextStream = 1
  /\ crashed = FALSE
  /\ fs = FsOf(SiteFiles)
  /\ dirOrder = <<n_a, n_p, n_q, n_home, n_404>>
  /\ isDev = FALSE
  /\ layoutCache = NoLayout
  /\ reading = NoCall
  /\ held = NoCall
  /\ db = EmptyDatabase
  /\ created = <<>>
  /\ applied = NoCall

\* what the last call was, what it was given and what it answered
Call(op, args, outcome, stored) ==
  [called |-> TRUE, op |-> op, args |-> args, threw |-> outcome.threw,
   reply |-> outcome.reply, stored |-> stored]

PollsUnchanged ==
  UNCHANGED <<ctrl, controllers, regLog, serving, req, nextStream, crashed,
              fs, dirOrder, isDev, layoutCache, reading, held>>

\* POST /api/poll/create?userId=u with a body
createPollPosted(userId, body) ==
  /\ Len(db.polls) < MaxPolls
  /\ LET outcome == createPollHandler(db, [userId |-> userId], body)
     IN /\ db' = outcome.db
        /\ created' = IF outcome.reply.success
                        THEN Append(created, outcome.reply.data)
                        ELSE created
        /\ applied' = Call("createPoll", [userId |-> userId], outcome, FALSE)
  /\ PollsUnchanged

\* pollService.getPollById(pollId)
getPollByIdCalled(pollId) ==
  /\ applied' = Call("getPollById", [pollId |-> pollId],
                     getPollById(db, pollId), FALSE)
  /\ UNCHANGED <<db, created>>
  /\ PollsUnchanged

\* GET /api/poll/fetchByUser?userId=u
fetchPollsByUserRequested(userId) ==
  /\ applied' = Call("fetchPollsByUser", [userId |-> userId],
                     fetchPollsByUserHandler(db, [userId |-> userId]), FALSE)
  /\ UNCHANGED <<db, created>>
  /\ PollsUnchanged

\* POST /api/vote/cast with a body
castVotePosted(body) ==
  /\ Len(db.votes) < MaxVotes
  /\ LET outcome == castVoteHandler(db, body)
     IN /\ db' = outcome.db
        /\ applied' = Call("castVote",
                           [pollId |-> Number(body.pollId),
                            optionId |-> Number(body.optionId)],
                           outcome, outcome.db.votes # db.votes)
  /\ UNCHANGED created
  /\ PollsUnchanged

NextPolls ==
  \/ \E userId \in UserIds, question \in Questions, options \in OptionLists :
       createPollPosted(userId, [question |-> question, options |-> options])
  \/ \E pollId \in PollIds : getPollByIdCalled(pollId)
  \/ \E userId \in UserIds : fetchPollsByUserRequested(userId)
  \/ \E pollId \in PollIds, optionId \in OptionIds, userId \in VoterIds :
       castVotePosted([pollId |-> JsonNumber(pollId), optionId |-> optionId,
                       userId |-> JsonString(userId)])

SpecPolls == InitPolls /\ [][NextPolls]_vars


(***************************************************************************)
(* Claims.                                                                 *)
(***************************************************************************)
equalIgnoringCase(m1, m2) == toLowerCase(m1) = toLowerCase(m2)

\* methods and paths looked up
LookupMethods ==
  {<<"G","E","T">>, <<"g","e","t">>, <<"g","E","t">>,
   <<"P","O","S","T">>, <<"p","o","s","t">>, <<"P","o","s","t">>}
LookupPaths ==
  {<<"/","a","p","i","/","p","/","a">>,
   <<"/","a","p","i","/","p","/","A">>,
   <<"/","a","p","i","/","P","/","a">>,
   <<"/","A","P","I","/","P","/","A">>,
   <<"/","a","p","i","/","p","a">>,
   <<"/","a","p","i","/","p","/","/","a">>}

\* the i-th registerRoute call on controller c, and the route it stored
Registered(c, i) == regLog.routes[c][i]
Stored(c, i) == ctrl[c].routes[i]

\* the earliest registration on c that stored the same path as the i-th one,
\* with the same method up to letter case
EarliestLike(c, i) ==
  LET same == {j \in 1..Len(ctrl[c].routes) :
                 /\ Stored(c, j).path = Stored(c, i).path
                 /\ equalIgnoringCase(Registered(c, j).method, Registered(c, i).method)}
  IN CHOOSE j \in same : \A k \in same : j <= k

\* C1 as stated: after any sequence of registerRoute calls, getHandler with
\* the stored path of a registered route and its method in any letter case
\* returns the handler registered with that route
C1_EveryRouteFound ==
  \A c \in CtrlIds : \A i \in 1..Len(ctrl[c].routes) : \A m \in LookupMethods :
    equalIgnoringCase(m, Registered(c, i).method)
      => getHandler(ctrl[c].routes, Stored(c, i).path, m) = Registered(c, i).handler

\* C1 amended: getHandler with the stored path of a registered route and its
\* method in any letter case returns the handler of the earliest registration
\* that stored this path with this method (the route's own handler when no such
\* registration precedes it); a path that is no stored path, one differing
\* from a stored path only in letter case included, yields null
C1_FirstRegisteredRouteFound ==
  /\ \A c \in CtrlIds : \A i \in 1..Len(ctrl[c].routes) : \A m \in LookupMethods :
       equalIgnoringCase(m, Registered(c, i).method)
         => getHandler(ctrl[c].routes, Stored(c, i).path, m)
              = Registered(c, EarliestLike(c, i)).handler
  /\ \A c \in CtrlIds : \A path \in LookupPaths : \A m \in LookupMethods :
       (\A i \in 1..Len(ctrl[c].routes) : Stored(c, i).path # path)
         => getHandler(ctrl[c].routes, path, m) = NULL

\* a controller holding two routes of the same path and method and different
\* handlers, a lookup in another letter case finding the first, and a path
\* differing from the stored one only in letter case finding nothing
C1_Witness ==
  \E c \in CtrlIds :
    /\ Len(ctrl[c].routes) = 2
    /\ Stored(c, 1).path = Stored(c, 2).path
    /\ Stored(c, 1).method = Stored(c, 2).method
    /\ Registered(c, 1).method # Registered(c, 2).method
    /\ Stored(c, 1).handler # Stored(c, 2).handler
    /\ getHandler(ctrl[c].routes, Stored(c, 2).path, <<"g","E","t">>) = Stored(c, 1).handler
    /\ getHandler(ctrl[c].routes, toUpperCase(Stored(c, 2).path), <<"g","E","t">>) = NULL

\* the requests dispatched so far
Dispatched == {s \in 1..MaxStreams : req[s].state # "idle"}
pathnameOfReq(s) == pathnameOf(req[s].rawPath)

\* the pathname is the API root or lies under it
UnderApiRoot(pathname) ==
  pathname = s_api \/ startsWith(pathname, s_api \o s_slash)

\* the i-th registration on controller c is for this pathname and method
RegisteredFor(c, i, pathname, method) ==
  /\ Stored(c, i).path = pathname
  /\ equalIgnoringCase(Registered(c, i).method, method)

\* positions (k, i): the i-th registerRoute call on the k-th controller passed
\* to registerController is for this pathname and method
MatchingRegistrations(pathname, method) ==
  {ki \in (1..Len(regLog.controllers)) \X (1..MaxRoutes + 1) :
     /\ ki[2] <= Len(regLog.routes[regLog.controllers[ki[1]]])
     /\ RegisteredFor(regLog.controllers[ki[1]], ki[2], pathname, method)}

\* the first such position: controllers in registerController order, then
\* routes in registerRoute order
FirstRegistration(pathname, method) ==
  LET M == MatchingRegistrations(pathname, method)
  IN CHOOSE ki \in M :
       \A other \in M :
         ki[1] < other[1] \/ (ki[1] = other[1] /\ ki[2] <= other[2])

\* C2: an API request whose pathname and method no controller of the
\* application has a registration for finds getHandler null on every
\* controller, has no handler invoked, and is answered with status 404 and
\* the body {"error":"API endpoint not found"}
C2_UnregisteredApiRequestGets404 ==
  \A s \in Dispatched :
    (/\ UnderApiRoot(pathnameOfReq(s))
     /\ MatchingRegistrations(pathnameOfReq(s), req[s].method) = {})
      => /\ \A k \in 1..Len(controllers) :
              getHandler(ctrl[controllers[k]].routes, pathnameOfReq(s), req[s].method) = NULL
         /\ req[s].calls = <<>>
         /\ req[s].state = "done"
         /\ req[s].stream.status = 404
         /\ req[s].stream.body = JsonBody(JSONerror("API endpoint not found"))
         /\ req[s].stream.ended

\* an application with a route /api/p/a answers a request for /api/p/A with
\* the API 404
C2_Witness ==
  \E s \in Dispatched :
    /\ req[s].rawPath = <<"/","a","p","i","/","p","/","A">>
    /\ \E k \in 1..Len(controllers) :
         \E i \in 1..Len(ctrl[controllers[k]].routes) :
           /\ ctrl[controllers[k]].routes[i].path = <<"/","a","p","i","/","p","/","a">>
           /\ equalIgnoringCase(ctrl[controllers[k]].routes[i].method, req[s].method)
    /\ req[s].stream.status = 404
    /\ req[s].calls = <<>>

\* C3: for an API request some registration matches, exactly one handler is
\* invoked: that of the first matching registration, controllers taken in
\* registerController order and, in a controller, routes in registerRoute order
C3_FirstMatchInRegistrationOrder ==
  \A s \in Dispatched :
    (/\ UnderApiRoot(pathnameOfReq(s))
     /\ MatchingRegistrations(pathnameOfReq(s), req[s].method) # {})
      => LET first == FirstRegistration(pathnameOfReq(s), req[s].method)
             c == regLog.controllers[first[1]]
         IN /\ Len(req[s].calls) = 1
            /\ req[s].calls[1].ctrl = c
            /\ req[s].calls[1].handler = Registered(c, first[2]).handler

\* both controllers hold a matching route, with different handlers, the
\* controller with the higher id was registered first, and its handler ran
C3_Witness ==
  \E s \in Dispatched :
    /\ regLog.controllers = <<2, 1>>
    /\ Cardinality({ki[1] : ki \in MatchingRegistrations(pathnameOfReq(s), req[s].method)}) = 2
    /\ Registered(1, 1).handler # Registered(2, 1).handler
    /\ req[s].calls = <<[ctrl |-> 2, handler |-> Registered(2, 1).handler]>>

Settled == {s \in Dispatched : req[s].outcome.kind # "none"}

C6_NoFailureEscapes == ~crashed

(***************************************************************************)
(* Page views: what the page tree holds for a request key, stated on the   *)
(* tree itself.                                                            *)
(***************************************************************************)
PageRequests == {s \in Dispatched : req[s].branches = <<"page">>}

\* the request key of a page request and its segments
keyOf(s) ==
  IF startsWith(pathnameOfReq(s), s_slash)
    THEN SubSeq(pathnameOfReq(s), 2, Len(pathnameOfReq(s)))
    ELSE pathnameOfReq(s)
segmentsOfKey(s) == SelectSeq(split(keyOf(s), "/"), LAMBDA seg : seg # <<>>)

\* the keys of the home page
HomeKeys == {<<>>, s_index, s_home}

\* the literal templates of a key: every segment a name of the tree, ending
\* in index.html or in <last>.html
LiteralIndex(segs) == pagesPath \o segs \o <<s_index_html>>
LiteralDirect(segs) == pagesPath \o withSuffix(segs, s_dot_html)
HasLiteralTemplate(segs) == IsFile(LiteralIndex(segs)) \/ IsFile(LiteralDirect(segs))
LiteralTemplate(segs) ==
  IF IsFile(LiteralIndex(segs)) THEN LiteralIndex(segs) ELSE LiteralDirect(segs)

\* a walk for the segments: one directory per segment, each below the one
\* before, each named as its segment or named ':name', with index.html in
\* the last directory or <dir>.html next to it
isDynamicName(n) == n # <<>> /\ n[1] = ":"
WalkCandidates(segs) ==
  IF Len(segs) = 1 THEN {<<d>> : d \in Range(dirOrder)}
  ELSE IF Len(segs) = 2 THEN {<<d[1], d[2]>> : d \in Range(dirOrder) \X Range(dirOrder)}
  ELSE {}
WalkTemplate(w) ==
  IF IsFile(pagesPath \o w \o <<s_index_html>>)
    THEN pagesPath \o w \o <<s_index_html>>
    ELSE pagesPath \o withSuffix(w, s_dot_html)
IsWalk(w, segs) ==
  /\ \A i \in 1..Len(w) :
       /\ IsDir(pagesPath \o SubSeq(w, 1, i))
       /\ w[i] = segs[i] \/ isDynamicName(w[i])
  /\ IsFile(WalkTemplate(w))
Walks(segs) == {w \in WalkCandidates(segs) : IsWalk(w, segs)}

\* the order in which walks are tried: level by level, the directory named
\* as the segment before the ':name' directories, these in listing order
Rank(name, seg) ==
  IF name = seg THEN 0 ELSE CHOOSE i \in 1..Len(dirOrder) : dirOrder[i] = name
TriedBefore(w, v, segs) ==
  \E k \in 1..(Len(w) + 1) :
    /\ \A i \in 1..(k - 1) : Rank(w[i], segs[i]) = Rank(v[i], segs[i])
    /\ k = Len(w) + 1 \/ Rank(w[k], segs[k]) < Rank(v[k], segs[k])
FirstWalkOf(walks, segs) ==
  CHOOSE w \in walks : \A v \in walks : TriedBefore(w, v, segs)
FirstWalk(segs) == FirstWalkOf(Walks(segs), segs)
HasWalk(segs) == \E w \in WalkCandidates(segs) : IsWalk(w, segs)

\* the parameters a walk binds: the name of each directory not named as its
\* segment, bound to that segment; of two directories of one name the
\* deeper binds
WalkParams(w, segs) ==
  LET bound == {i \in 1..Len(w) : w[i] # segs[i]}
  IN [n \in {Tail(w[i]) : i \in bound} |->
        LET at == {i \in bound : Tail(w[i]) = n}
        IN segs[CHOOSE i \in at : \A j \in at : i >= j]]

\* the resolution fell to the 404 fallback: app/404.html, else
\* app/404/index.html, else the inline text
FellTo404(s) ==
  /\ req[s].view.dynamicParams = EmptyParams
  /\ req[s].view.path =
       IF existsSync(notFoundPath) THEN notFoundPath
       ELSE IF existsSync(notFoundIndexPath) THEN notFoundIndexPath
       ELSE <<>>

\* the page tree holds the directory named as the first segment, the key has
\* no literal template and no walk goes through that directory
LiteralBranchFails(s) ==
  /\ keyOf(s) \notin HomeKeys
  /\ ~HasLiteralTemplate(segmentsOfKey(s))
  /\ IsDir(pagesPath \o <<segmentsOfKey(s)[1]>>)
  /\ \A w \in Walks(segmentsOfKey(s)) : w[1] # segmentsOfKey(s)[1]

\* the view is that of the walk, and the walk starts in a ':name' directory
\* bound to the first segment
ResolvedBySibling(view, segs, w) ==
  /\ w[1] # segs[1]
  /\ isDynamicName(w[1])
  /\ view.path = WalkTemplate(w)
  /\ view.path # notFoundPath
  /\ \/ view.dynamicParams[Tail(w[1])] = segs[1]
     \/ Len(w) = 2 /\ w[2] = w[1] /\ view.dynamicParams[Tail(w[1])] = segs[2]

C8_LiteralOverDynamic ==
  \A s \in PageRequests :
    HasLiteralTemplate(segmentsOfKey(s))
      => /\ req[s].view.path \in {LiteralIndex(segmentsOfKey(s)), LiteralDirect(segmentsOfKey(s))}
         /\ IsFile(req[s].view.path)
         /\ req[s].view.dynamicParams = EmptyParams

\* C8 amended: a key other than "", "index" and "home" that has a literal
\* template resolves to it (index.html before <last>.html) with empty
\* dynamicParams, whatever ':name' directories the tree holds; the keys "",
\* "index" and "home" resolve to home.html, else home/index.html, else the 404
\* fallback, whatever literal template they have
C8_LiteralOverDynamicButHome ==
  \A s \in PageRequests :
    /\ (keyOf(s) \notin HomeKeys /\ HasLiteralTemplate(segmentsOfKey(s)))
         => /\ req[s].view.path = LiteralTemplate(segmentsOfKey(s))
            /\ req[s].view.dynamicParams = EmptyParams
            /\ req[s].view.content = ContentOf(req[s].view.path, fs[req[s].view.path])
    /\ keyOf(s) \in HomeKeys
         => IF IsFile(pagesPath \o <<s_home_html>>)
              THEN req[s].view.path = pagesPath \o <<s_home_html>>
            ELSE IF IsFile(pagesPath \o <<s_home, s_index_html>>)
              THEN req[s].view.path = pagesPath \o <<s_home, s_index_html>>
            ELSE FellTo404(s)

\* a key with the literal template <last>.html and a ':name' directory that
\* also resolves it: the literal template is returned
C8_Witness ==
  \E s \in PageRequests :
    /\ keyOf(s) \notin HomeKeys
    /\ HasWalk(segmentsOfKey(s))
    /\ req[s].view.path = LiteralDirect(segmentsOfKey(s))
    /\ IsFile(req[s].view.path)
    /\ req[s].view.dynamicParams = EmptyParams

\* the view is that of the walk: its template, its bindings, the content of
\* the template
ResolvedByWalk(view, segs, w) ==
  /\ view.path = WalkTemplate(w)
  /\ view.dynamicParams = WalkParams(w, segs)
  /\ view.content = ContentOf(view.path, fs[view.path])

\* C9 as stated: a key with no literal template whose segments some walk
\* matches resolves to the template of such a walk, and dynamicParams maps
\* the name of every ':name' directory of the walk to its segment
C9_DynamicBinding ==
  \A s \in PageRequests :
    (~HasLiteralTemplate(segmentsOfKey(s)) /\ HasWalk(segmentsOfKey(s)))
      => \E w \in Walks(segmentsOfKey(s)) :
           /\ req[s].view.path = WalkTemplate(w)
           /\ \A i \in 1..Len(w) :
                isDynamicName(w[i])
                  => /\ Tail(w[i]) \in DOMAIN req[s].view.dynamicParams
                     /\ req[s].view.dynamicParams[Tail(w[i])] = segmentsOfKey(s)[i]

\* C9 amended: a key other than "", "index" and "home" with no literal
\* template whose segments some walk matches resolves to the template of the
\* first such walk in the order tried (index.html before <dir>.html), and
\* dynamicParams maps the name of every directory of the walk that is not
\* named as its segment to that segment, the deeper directory binding when
\* two carry one name; a ':name' directory named as its segment binds nothing
C9_DynamicBindingOfFirstWalk ==
  \A s \in PageRequests :
    (/\ keyOf(s) \notin HomeKeys
     /\ ~HasLiteralTemplate(segmentsOfKey(s))
     /\ HasWalk(segmentsOfKey(s)))
      => ResolvedByWalk(req[s].view, segmentsOfKey(s), FirstWalk(segmentsOfKey(s)))

\* a key of two segments resolved through two ':name' directories, both
\* bound
C9_Witness ==
  \E s \in PageRequests :
    /\ ~HasLiteralTemplate(segmentsOfKey(s))
    /\ Len(segmentsOfKey(s)) = 2
    /\ req[s].view.path = pagesPath \o <<n_p, n_q, s_index_html>>
    /\ req[s].view.dynamicParams =
         [n \in {<<"p">>, <<"q">>} |->
            IF n = <<"p">> THEN segmentsOfKey(s)[1] ELSE segmentsOfKey(s)[2]]

\* the key has no literal template and no walk
NothingMatches(s) ==
  ~HasLiteralTemplate(segmentsOfKey(s)) /\ ~HasWalk(segmentsOfKey(s))

NoHomePage ==
  ~IsFile(pagesPath \o <<s_home_html>>) /\ ~IsFile(pagesPath \o <<s_home, s_index_html>>)

beforeQuery(rawPath) ==
  LET S == {i \in 1..Len(rawPath) : rawPath[i] \in {"?", "#"}}
  IN IF S = {} THEN rawPath
     ELSE SubSeq(rawPath, 1, (CHOOSE i \in S : \A j \in S : i <= j) - 1)

\* requests received that are neither API requests nor static-file requests
PageViewsReceived ==
  {s \in DOMAIN req :
     /\ req[s].state # "idle"
     /\ ~startsWith(beforeQuery(req[s].rawPath), s_api)
     /\ toLowerCase(extname(beforeQuery(req[s].rawPath))) \notin staticFileExtensions}

\* the one response of a page view: status 200, HTML, stream ended
AnsweredWithPage(s) ==
  /\ req[s].state = "done"
  /\ req[s].branches = <<"page">>
  /\ req[s].stream.headersSent /\ req[s].stream.ended
  /\ req[s].stream.status = 200
  /\ req[s].stream.contentType = "text/html; charset=utf-8"
  /\ req[s].stream.body.kind = "html"

\* C11: page views never fail.  Every request that is neither an API request
\* nor a static-file request, whatever the state of the files (template
\* missing, template unreadable or unlinked between the existence check and
\* the read, pages directory unreadable, layout missing), lets no error leave
\* onStream and is answered once with status 200 and content type
\* 'text/html; charset=utf-8'.
C11_PageViewsNeverFail ==
  /\ PageViewsReceived # {} => ~crashed
  /\ \A s \in PageViewsReceived : AnsweredWithPage(s)

(***************************************************************************)
(* Interpolation.                                                          *)
(***************************************************************************)
\* a dotted path of keys: a non-empty run of word characters and dots
IsKeyPath(key) ==
  key # <<>> /\ \A i \in 1..Len(key) : key[i] \in WordChars \cup {"."}

\* data[k1][k2]...[kn]: undefined as soon as a component is absent
RECURSIVE valueAt(_, _)
valueAt(value, keys) ==
  IF keys = <<>> \/ value = Undefined THEN value
  ELSE valueAt(propertyOf(value, Head(keys)), Tail(keys))

\* C12: interpolation.  parseVariables replaces {{k1.k2...kn}} by the string
\* form of data[k1][k2]...[kn], by the empty string when a component along
\* the path is absent or the final value is undefined, and leaves any other
\* text as it is.
C12_Interpolation ==
  applied.called =>
    applied.result =
      applied.pre
        \o (IF IsKeyPath(applied.key)
              THEN stringOf(valueAt(applied.data, split(applied.key, ".")))
              ELSE <<"{","{">> \o applied.key \o <<"}","}">>)
        \o applied.post

(***************************************************************************)
(* Caching of templates and of the layout.                                 *)
(***************************************************************************)
\* page views answered, in the order of their streams
PagesRendered ==
  {s \in DOMAIN req : req[s].state = "done" /\ req[s].branches = <<"page">>}

\* file p was readable when request s was dispatched
ReadableAt(s, p) == p \in DOMAIN req[s].seen /\ req[s].seen[p] # Unreadable

\* requests s1 and s2, in this order, rendered the same key from the same
\* template file, whose text was changed between them
TemplateChangedBetween(s1, s2) ==
  /\ s1 < s2
  /\ req[s1].rawPath = req[s2].rawPath
  /\ req[s1].view.path = req[s2].view.path
  /\ req[s1].view.path # <<>>
  /\ ReadableAt(s1, req[s1].view.path) /\ ReadableAt(s2, req[s2].view.path)
  /\ req[s1].seen[req[s1].view.path] # req[s2].seen[req[s2].view.path]

\* C13: template caching outside development mode.  In non-development mode
\* a change made to a page template after it was rendered once is not
\* reflected by later renders of the same key; in development mode the very
\* next render reflects it.
C13_TemplateCachedOutsideDevelopment ==
  \A s1, s2 \in PagesRendered :
    TemplateChangedBetween(s1, s2) =>
      IF isDev
        THEN req[s2].view.content
               = ContentOf(req[s2].view.path, req[s2].seen[req[s2].view.path])
        ELSE /\ req[s2].view.content = req[s1].view.content
             /\ req[s2].stream.body = req[s1].stream.body

\* the layout as a read of the file gave it when request s was dispatched
LayoutOnDiskAt(s) ==
  IF ReadableAt(s, layoutPath)
    THEN ContentOf(layoutPath, req[s].seen[layoutPath])
    ELSE s_defaultLayout

\* the response of request s is this layout around its interpolated template
RenderedInto(s, layout) ==
  req[s].stream.body =
    HtmlBody(replaceFirst(layout, s_contentMarker,
                          parseVariables(req[s].view.content,
                                         renderData(req[s].view.dynamicParams,
                                                    req[s].rawPath))))

\* the first page view rendered
FirstRendered == CHOOSE s \in PagesRendered : \A r \in PagesRendered : s <= r

\* C14: layout cache.  In non-development mode the layout is read from disk
\* once, by the first render, and every render uses that string whatever
\* happens to the file afterwards; until the first render nothing is cached.
\* In development mode every render uses the layout as it is on disk at that
\* moment, and nothing is ever cached.
C14_LayoutCache ==
  /\ (isDev \/ PagesRendered = {}) => layoutCache = NoLayout
  /\ (~isDev /\ PagesRendered # {}) =>
        layoutCache = [loaded |-> TRUE, text |-> LayoutOnDiskAt(FirstRendered)]
  /\ \A s \in PagesRendered :
       RenderedInto(s, IF isDev THEN LayoutOnDiskAt(s)
                                ELSE LayoutOnDiskAt(FirstRendered))

\* outside development mode, two renders with a change of the layout file
\* between them
C14_Witness ==
  /\ ~isDev
  /\ \E s1, s2 \in PagesRendered :
       s1 < s2 /\ LayoutOnDiskAt(s1) # LayoutOnDiskAt(s2)

\* C15: render idempotence.  In non-development mode two renders of the same
\* request path (the base data is fixed), made against the same page tree
\* and layout file, write the same response, whatever was rendered before
\* or between them.
C15_RenderIdempotent ==
  ~isDev =>
    \A s1, s2 \in PagesRendered :
      (req[s1].rawPath = req[s2].rawPath /\ req[s1].seen = req[s2].seen)
        => req[s1].stream = req[s2].stream

\* two renders of one path against the same files, after a render made when
\* the files were different
C15_Witness ==
  /\ ~isDev
  /\ \E s0, s1, s2 \in PagesRendered :
       /\ s0 < s1 /\ s1 < s2
       /\ req[s1].rawPath = req[s2].rawPath
       /\ req[s1].seen = req[s2].seen
       /\ req[s0].seen # req[s1].seen

(***************************************************************************)
(* Query parameters.                                                       *)
(***************************************************************************)
\* a mapping from names to strings, as querystring.parse gives it
AsOfUrl(m) == [n \in DOMAIN m |-> QsString(m[n])]

\* the mapping the claim gives for the query, for the queries it speaks of
ClaimedQueries ==
  {<<>>, <<"?">>, <<"?","k","=">>, <<"?","k">>, <<"?","a","=","1","&","b","=","2">>}
ClaimedParams(query) ==
  IF query \in {<<>>, <<"?">>} THEN EmptyParams
  ELSE IF query \in {<<"?","k","=">>, <<"?","k">>} THEN [n \in {<<"k">>} |-> <<>>]
  ELSE [n \in {<<"a">>, <<"b">>} |-> IF n = <<"a">> THEN <<"1">> ELSE <<"2">>]

RECURSIVE bytesIn(_)
bytesIn(events) ==
  IF events = <<>> THEN 0 ELSE Len(Head(events).chunk) + bytesIn(Tail(events))

\* the n-th event is the 'data' event that takes the body over maxSize
Oversize(n) ==
  /\ reading.log[n].event = "data"
  /\ bytesIn(SubSeq(reading.log, 1, n)) > reading.maxSize
  /\ bytesIn(SubSeq(reading.log, 1, n - 1)) <= reading.maxSize

\* getBody was called and attached its listeners
Listened == reading.called /\ ~unsupported(reading.header)

\* C17: oversize body.  As soon as the bytes of the 'data' events exceed
\* maxSize the promise is rejected with the 'too large' error, whether or
\* not 'end' follows, and JSON.parse is never applied; the promise is
\* rejected for size only then.
C17_OversizeRejected ==
  Listened =>
    /\ (\E n \in 1..Len(reading.log) : Oversize(n)) =>
          /\ reading.promise = Rejected("Request body too large")
          /\ ~reading.parsed
    /\ reading.promise = Rejected("Request body too large") =>
          \E n \in 1..Len(reading.log) : Oversize(n)

\* the body went over maxSize and the stream then ended
C17_Witness ==
  /\ Listened
  /\ \E n \in 1..Len(reading.log) : Oversize(n)
  /\ reading.stream = "ended"

\* the events that decide the promise: the oversize 'data', 'end', 'error'
Decisive ==
  {n \in 1..Len(reading.log) :
     Oversize(n) \/ reading.log[n].event \in {"end", "error"}}
FirstDecisive == CHOOSE n \in Decisive : \A m \in Decisive : n <= m

\* the body read up to the n-th event
BodyBefore(n) ==
  concat([i \in 1..(n - 1) |-> reading.log[i].chunk])

\* what the claim gives for a body that ended within maxSize
ParsedOutcome(text) ==
  IF trim(text) = <<>> THEN Resolved(EmptyObject)
  ELSE IF JSONparse(text).threw THEN Rejected("Failed to parse request body")
  ELSE Resolved(JSONparse(text).value)

\* a content-type header is present and its value does not begin with the
\* expected media type, letter case included
Mismatch ==
  /\ reading.header.present
  /\ \/ Len(reading.header.value) < Len(JSON_CONTENT_TYPE)
     \/ SubSeq(reading.header.value, 1, Len(JSON_CONTENT_TYPE)) # JSON_CONTENT_TYPE

Answered500 == {s \in Dispatched : req[s].stream.status = 500}

\* C19: single 500 site.  A response has status 500 only when it was written
\* by the catch of the dispatcher around an API handler that rejected; the
\* static-file branch and the page-view branch never answer 500, and a
\* request of the static-file branch that is not answered with the file is
\* answered 404.
C19_Single500Site ==
  /\ \A s \in Answered500 :
       /\ req[s].branches = <<"api">>
       /\ req[s].outcome.kind = "rejected"
  /\ \A s \in Dispatched :
       "static" \in Range(req[s].branches) =>
          /\ req[s].stream.status \in {200, 404}
          /\ readFileSync(publicPath \o segmentsOf(pathnameOfReq(s))).threw
               => req[s].stream.status = 404

(***************************************************************************)
(* The array getRoutes returns.                                            *)
(***************************************************************************)
\* the step is an operation of the caller on the array it holds
CallerActed == held.called /\ held'.called /\ held'.ops # held.ops

\* the requests getHandler is asked about
ProbePaths == {<<"/","a","p","i","/","p","/","a">>, <<"/","a","p","i","/","q">>}
ProbeMethods == {<<"g","e","t">>, <<"p","o","s","t">>}

\* C20: getRoutes returns a defensive copy.  No operation of a caller on the
\* array it got from getRoutes (push, pop, reverse, assignment to the path,
\* method or handler of an element) changes what getRoutes or getHandler of
\* any controller return afterwards.
C20_GetRoutesDefensiveCopy ==
  [][CallerActed =>
       \A c \in CtrlIds :
         /\ getRoutes(c)' = getRoutes(c)
         /\ \A path \in ProbePaths, method \in ProbeMethods :
              getHandler(ctrl[c].routes, path, method)'
                = getHandler(ctrl[c].routes, path, method)]_vars

(***************************************************************************)
(* The stored routes against the registerRoute calls made.                 *)
(***************************************************************************)
\* s with, of every run of '/', the first '/' only
OneSlashPerRun(s) ==
  LET keep == {i \in 1..Len(s) : ~(s[i] = "/" /\ i > 1 /\ s[i - 1] = "/")}
  IN [k \in 1..Cardinality(keep) |->
        s[CHOOSE i \in keep : Cardinality({j \in keep : j <= i}) = k]]

\* s holds two '/' in a row
HasDoubleSlash(s) == \E i \in 1..(Len(s) - 1) : s[i] = "/" /\ s[i + 1] = "/"

\* s holds no lower-case letter
IsUpperCase(s) == \A i \in 1..Len(s) : s[i] \notin Range(LowerLetters)

\* the routes of controller c are those of its registerRoute calls, in the
\* order of the calls
StoredAsRegistered(c) ==
  /\ Len(ctrl[c].routes) = Len(regLog.routes[c])
  /\ \A i \in 1..Len(ctrl[c].routes) :
       /\ ctrl[c].routes[i].path =
            OneSlashPerRun(s_api \o ctrl[c].basePath \o regLog.routes[c][i].path)
       /\ ~HasDoubleSlash(ctrl[c].routes[i].path)
       /\ equalIgnoringCase(ctrl[c].routes[i].method, regLog.routes[c][i].method)
       /\ IsUpperCase(ctrl[c].routes[i].method)
       /\ ctrl[c].routes[i].handler = regLog.routes[c][i].handler

\* a step appends one route to one controller and leaves every other route
\* where it was
AppendsOneRoute ==
  \E c \in CtrlIds :
    /\ Len(ctrl'[c].routes) = Len(ctrl[c].routes) + 1
    /\ SubSeq(ctrl'[c].routes, 1, Len(ctrl[c].routes)) = ctrl[c].routes
    /\ \A d \in CtrlIds \ {c} : ctrl'[d].routes = ctrl[d].routes

\* C21: registry invariant.  After any sequence of registerRoute calls every
\* stored path is '/api' + basePath + relativePath with each run of '/'
\* collapsed to one, so holds no '//'; every stored method is upper-case; and
\* each call appends exactly one route, the earlier routes and their order
\* unchanged.
C21_RegistryInvariant ==
  /\ [](\A c \in CtrlIds : StoredAsRegistered(c))
  /\ [][regLog' # regLog => AppendsOneRoute]_vars

\* two routes of one controller, the second registered with a relative path
\* that begins with '//' and a lower-case method
C21_Witness ==
  \E c \in CtrlIds :
    /\ Len(ctrl[c].routes) = 2
    /\ HasDoubleSlash(regLog.routes[c][2].path)
    /\ ~IsUpperCase(regLog.routes[c][2].method)

(***************************************************************************)
(* Transport errors and the life of the process.                           *)
(***************************************************************************)
\* the request streams on which 'error' was emitted
ErroredStreams == {s \in DOMAIN req : req[s].state # "idle" /\ req[s].stream.destroyed}

\* C22: stream errors do not stop the server.  After an 'error' event on a
\* request stream, whenever it occurs (after the page or static answer, while
\* a handler is pending, while getBody reads the body or after it removed
\* its listeners), the process lives, so later requests are dispatched.
C22_StreamErrorsDoNotStopServer == ErroredStreams # {} => ~crashed

(***************************************************************************)
(* Requests in flight at the same time.                                    *)
(***************************************************************************)
InFlight == {s \in DOMAIN req : req[s].state \in {"pending", "settled"}}
Answerable == {s \in DOMAIN req : req[s].state \notin {"idle", "failed"}}

\* what onStream does for the path and method of request s alone
OwnDispatch(s) ==
  triage(req[s].rawPath, pathnameOf(req[s].rawPath), req[s].method).r

\* what the reaction job writes for the outcome of request s alone, on a
\* stream of its own
OwnReaction(s) ==
  LET own == [NewStream EXCEPT !.destroyed = req[s].stream.destroyed]
  IN IF req[s].outcome.kind = "resolved"
       THEN onFulfilled(own, req[s].outcome.value).st
       ELSE onRejected(own, req[s].outcome.error).st

\* C23: request independence.  A request is classified and dispatched by its
\* own path and method and answered by its own handler's result, whatever
\* other requests are in flight and in whatever order handlers complete;
\* and no request in flight is left without an answer by what happens to
\* another request.
C23_RequestIndependence ==
  /\ \A s \in Answerable :
       /\ req[s].branches = OwnDispatch(s).branches
       /\ req[s].calls = OwnDispatch(s).calls
       /\ (req[s].state = "done" /\ req[s].calls = <<>>)
            => req[s].stream = OwnDispatch(s).stream
       /\ (req[s].state = "done" /\ req[s].calls # <<>>)
            => req[s].stream = OwnReaction(s)
  /\ ~(crashed /\ InFlight # {})

(***************************************************************************)
(* Liveness of API responses.                                              *)
(***************************************************************************)
\* the handler matched for request s has resolved or rejected
HandlerSettled(s) == req[s].outcome.kind # "none"
\* request s has its response and its stream is ended
Responded(s) == req[s].stream.headersSent /\ req[s].stream.ended

\* C24: response liveness.  Every API request whose handler resolves or
\* rejects eventually has received a response and has its stream ended; a
\* request whose handler has not settled has no response and its stream is
\* not ended.
C24_ResponseLiveness ==
  /\ \A s \in 1..(MaxStreams + 1) : HandlerSettled(s) ~> Responded(s)
  /\ [](\A s \in 1..(MaxStreams + 1) :
          req[s].state = "pending"
            => ~req[s].stream.headersSent /\ ~req[s].stream.ended)

(***************************************************************************)
(* One response per stream.                                                *)
(***************************************************************************)
\* once the headers of a stream are out they stay as sent, and once the
\* stream is ended its body stays as written
ResponseKept(s) ==
  /\ req[s].stream.headersSent =>
       /\ req'[s].stream.headersSent
       /\ req'[s].stream.status = req[s].stream.status
       /\ req'[s].stream.contentType = req[s].stream.contentType
       /\ req'[s].stream.cacheControl = req[s].stream.cacheControl
  /\ req[s].stream.ended =>
       /\ req'[s].stream.ended
       /\ req'[s].stream.body = req[s].stream.body

\* C28: at most one response per stream.  On every dispatch path (handler
\* success, handler failure, API 404, static file, page view) the headers of
\* a stream go out at most once and end() is called on it at most once, so
\* nothing is written after the stream has been ended.
C28_AtMostOneResponse ==
  /\ [](\A s \in DOMAIN req :
          /\ req[s].stream.ends <= 1
          /\ req[s].stream.ended = (req[s].stream.ends = 1)
          /\ req[s].stream.ended => req[s].stream.headersSent)
  /\ [][\A s \in DOMAIN req : ResponseKept(s)]_vars

\* a handler resolved with a value JSON.stringify refuses, so that sendJSON
\* sent the headers and the .catch callback ended the stream; next to it a
\* static file or a page view was answered
C28_Witness ==
  \E s \in DOMAIN req, t \in DOMAIN req :
    /\ req[s].state = "done" /\ req[s].calls # <<>>
    /\ req[s].outcome = [kind |-> "resolved", value |-> [tag |-> "circular"]]
    /\ req[s].stream.ends = 1
    /\ req[t].state = "done" /\ req[t].branches # <<"api">>
    /\ req[t].stream.ends = 1

(***************************************************************************)
(* Which requests are API requests.                                        *)
(***************************************************************************)
\* the pathname is '/api' or begins with '/api/'
ApiBySegment(pathname) ==
  \/ pathname = <<"/","a","p","i">>
  \/ (Len(pathname) > 4 /\ SubSeq(pathname, 1, 5) = <<"/","a","p","i","/">>)

\* the pathname begins with the four characters '/api'
ApiByPrefix(pathname) ==
  Len(pathname) >= 4 /\ SubSeq(pathname, 1, 4) = <<"/","a","p","i">>

\* C29 as stated: a request is handled as an API request if and only if its
\* pathname is '/api' or begins with '/api/'; every other pathname is
\* handled as a static asset or a page view
C29_ApiBySegment ==
  \A s \in Dispatched :
    /\ ("api" \in Range(req[s].branches)) = ApiBySegment(pathnameOfReq(s))
    /\ ~ApiBySegment(pathnameOfReq(s)) =>
         req[s].branches \in {<<"static">>, <<"page">>}

\* C29 amended: a request is handled as an API request if and only if its
\* pathname begins with the characters '/api', whatever follows them; such
\* a request is answered by a handler or by the API 404 and reaches neither
\* the static files nor the view resolver; every other pathname is handled
\* as a static asset or a page view.
C29_ApiByPrefix ==
  \A s \in Dispatched :
    /\ (req[s].branches = <<"api">>) = ApiByPrefix(pathnameOfReq(s))
    /\ ApiByPrefix(pathnameOfReq(s)) =>
         /\ req[s].view = NoView
         /\ (req[s].calls = <<>>) => req[s].stream.status = 404
    /\ ~ApiByPrefix(pathnameOfReq(s)) =>
         req[s].branches \in {<<"static">>, <<"page">>}

\* the request /apix, no page and no route, was answered with the API 404
C29_Witness ==
  \E s \in Dispatched :
    /\ pathnameOfReq(s) = <<"/","a","p","i","x">>
    /\ req[s].branches = <<"api">>
    /\ req[s].stream.status = 404
    /\ req[s].stream.body = JsonBody(JSONerror("API endpoint not found"))

\* C25: after createPoll(p) succeeded and returned id i, getPollById(i)
\* succeeds and returns a poll whose question is p.question and whose
\* options are p.options
C25_PollRoundTrip ==
  (applied.called /\ applied.op = "getPollById") =>
    \A k \in 1..Len(created) :
      created[k].id = applied.args.pollId =>
        /\ ~applied.threw
        /\ applied.reply.success
        /\ applied.reply.data.question = created[k].question
        /\ applied.reply.data.options = created[k].options

\* the options list the poll with this id was created with (empty when no
\* such poll was created)
optionsOfPoll(pollId) ==
  IF \E k \in 1..Len(created) : created[k].id = pollId
    THEN created[CHOOSE k \in 1..Len(created) : created[k].id = pollId].options.items
    ELSE <<>>

\* C26: a POST to /api/vote/cast stores a vote for (pollId, optionId) exactly
\* when the poll exists and optionId is a position of its options list, the
\* first included; otherwise no row is stored and the reply has success false
C26_VoteValidity ==
  (applied.called /\ applied.op = "castVote") =>
    /\ applied.stored <=>
         (applied.args.optionId + 1) \in 1..Len(optionsOfPoll(applied.args.pollId))
    /\ applied.stored =>
         /\ db.votes[Len(db.votes)].poll_id = applied.args.pollId
         /\ db.votes[Len(db.votes)].option_id = applied.args.optionId
    /\ ~applied.stored => ~applied.reply.success

\* C27: after any polls were created through POST /api/poll/create with a
\* userId, fetchPollsByUser(u) succeeds and returns exactly the polls created
\* with userId u, an empty list when there is none
C27_PollsByUser ==
  (applied.called /\ applied.op = "fetchPollsByUser") =>
    /\ applied.reply.success
    /\ {applied.reply.data[i].id : i \in 1..Len(applied.reply.data)}
         = {created[k].id : k \in {j \in 1..Len(created) :
                                      created[j].userId = applied.args.userId}}
    /\ \A i \in 1..Len(applied.reply.data) :
         \E k \in 1..Len(created) :
           /\ created[k].id = applied.reply.data[i].id
           /\ created[k].question = applied.reply.data[i].question
           /\ created[k].options = applied.reply.data[i].options

\* the resolved template lies in the page tree
UnderPages(path) ==
  Len(path) > Len(pagesPath) /\ SubSeq(path, 1, Len(pagesPath)) = pagesPath
\* the directories of the page tree the resolved template lies beneath
DirsAbove(path) == SubSeq(path, Len(pagesPath) + 1, Len(path) - 1)
\* the walk a resolved template closes: its directories, and for a template
\* <dir>.html the name <dir> as well
WalkOfPath(path, segs) ==
  IF Len(DirsAbove(path)) = Len(segs) THEN DirsAbove(path)
  ELSE DirsAbove(path)
         \o <<SubSeq(path[Len(path)], 1, Len(path[Len(path)]) - Len(s_dot_html))>>

\* C30 as stated: every ':name' directory the resolved template lies beneath
\* is bound to the segment at its depth, every binding is that of a ':name'
\* directory of the resolved walk, and a resolution that ends in the 404
\* fallback has no binding
C30_ParamsCompleteAndClean ==
  \A s \in PageRequests :
    LET view == req[s].view
        segs == segmentsOfKey(s)
    IN IF UnderPages(view.path)
         THEN /\ \A i \in 1..Len(DirsAbove(view.path)) :
                   isDynamicName(DirsAbove(view.path)[i])
                     => /\ Tail(DirsAbove(view.path)[i]) \in DOMAIN view.dynamicParams
                        /\ view.dynamicParams[Tail(DirsAbove(view.path)[i])] = segs[i]
              /\ \A n \in DOMAIN view.dynamicParams :
                   \E i \in 1..Len(WalkOfPath(view.path, segs)) :
                     /\ WalkOfPath(view.path, segs)[i] = <<":">> \o n
                     /\ view.dynamicParams[n] = segs[i]
       ELSE view.dynamicParams = EmptyParams

\* C30 amended: for a key other than "", "index" and "home" whose template
\* is resolved in the page tree, dynamicParams binds the name of every
\* directory of the resolved walk that is not named as its segment to the
\* segment at its depth, the deeper directory binding when two carry one
\* name, and holds nothing else; for the home keys and in the 404 fallback
\* dynamicParams is empty
C30_ParamsOfResolvedWalk ==
  \A s \in PageRequests :
    LET view == req[s].view
        segs == segmentsOfKey(s)
    IN IF UnderPages(view.path) /\ keyOf(s) \notin HomeKeys
         THEN view.dynamicParams = WalkParams(WalkOfPath(view.path, segs), segs)
       ELSE view.dynamicParams = EmptyParams

\* a key of one segment resolved in the second ':name' directory after the
\* walk through the first was abandoned: only the second name is bound
C30_Witness ==
  \E s \in PageRequests :
    /\ Len(segmentsOfKey(s)) = 1
    /\ IsDir(pagesPath \o <<n_p>>)
    /\ Rank(n_p, segmentsOfKey(s)[1]) < Rank(n_q, segmentsOfKey(s)[1])
    /\ req[s].view.path = pagesPath \o <<n_q, s_index_html>>
    /\ req[s].view.dynamicParams = [n \in {<<"q">>} |-> segmentsOfKey(s)[1]]

=============================================================================
